---- MODULE Spec2Model ----
(***************************************************************************)
(* A model of the cloudstore server: the in-memory entity store MemStorage *)
(* (src/server/storage.ts, lines 50-473) and the REST route handlers that  *)
(* call it (same file, lines 522-1021).                                    *)
(*                                                                         *)
(* Conventions                                                             *)
(*  - byte counts are measured in GiB units (TLC integers are 32 bit and   *)
(*    the quota is 15 * 2^30 bytes); the code only adds, subtracts and     *)
(*    compares sizes, so the unit does not change any outcome;             *)
(*  - dates are integer clock readings, `now` is the wall clock;           *)
(*  - JavaScript null / undefined are Null / Undefined in integer fields   *)
(*    and "<null>" / "<undefined>" in text and flag fields;                *)
(*  - an optional object (T | undefined) is a sequence of length <= 1;     *)
(*  - a Map is a function; its iteration order is insertion order, which   *)
(*    is ascending id order because ids are handed out by a counter and    *)
(*    Map.set on an existing key keeps the key's position;                 *)
(*  - pending holds the route handlers that are suspended at an await,     *)
(*    ui the state of the client component a specification looks at; both  *)
(*    stay empty in the specifications that handle one request at a time.  *)
(***************************************************************************)
EXTENDS Integers, Sequences, FiniteSets, TLC

VARIABLES users, folders, files, shares,
          currentUserId, currentFolderId, currentFileId, currentShareId,
          now, res, pending, ui

vars == <<users, folders, files, shares,
          currentUserId, currentFolderId, currentFileId, currentShareId,
          now, res, pending, ui>>

store == <<users, folders, files, shares,
           currentUserId, currentFolderId, currentFileId, currentShareId>>

----------------------------------------------------------------------------
(* Bounds of the model *)

MaxUserId == 2
MaxFolderId == 2
MaxFileId == 2
MaxShareId == 1
MaxTime == 1
MaxQuotaFiles == 8
QuotaFilesBefore == 6
MaxViewItems == 2
MaxSharedFiles == 1
MaxRouteItems == 2
MaxClampFiles == 1
MaxDrift == 3
MaxTrashItems == 1
MaxUpdateItems == 2
MaxRecentFiles == 2
MaxRecentTime == 2
MaxSharedViewItems == 1
MaxSharedViewShares == 2
MaxStatsFolders == 2
MaxStatsFiles == 2
MaxIsolationItems == 2
MaxPending == 2
MaxUploadItems == 2
MaxUploadRuns == 2
MaxPlacementItems == 3
MaxRestoreFiles == 1
MaxPreviewFiles == 3
MaxShareLinks == 2

(* Program constants (GiB units) *)
StorageLimit == 15
MaxUploadSize == 2

----------------------------------------------------------------------------
(* JavaScript values *)

Null == 0 - 1
Undefined == 0 - 2
NullT == "<null>"
UndefinedT == "<undefined>"

\* truthiness of a number | null | undefined
TruthyN(n) == n \notin {0, Null, Undefined}
\* truthiness of a string | null | undefined
TruthyT(t) == t \notin {"", NullT, UndefinedT}
\* truthiness of a boolean | null | undefined
TruthyB(b) == b = "true"
\* truthiness of a Date | null | undefined (a Date object is always truthy)
TruthyD(d) == d \notin {Null, Undefined}

\* String.prototype.toLowerCase on the names the model uses
toLowerCase(s) ==
  CASE s = "A" -> "a"
    [] s = "B" -> "b"
    [] OTHER -> s

\* a || b on text
OrT(a, b) == IF TruthyT(a) THEN a ELSE b
\* n || null on numbers
OrNull(n) == IF TruthyN(n) THEN n ELSE Null

Max(a, b) == IF a >= b THEN a ELSE b

\* { ...rec, ...data }
Merge(rec, data) ==
  [f \in DOMAIN rec \cup DOMAIN data |->
      IF f \in DOMAIN data THEN data[f] ELSE rec[f]]

\* a finite set of integers as a sequence in ascending order (Map order)
RECURSIVE Ascending(_)
Ascending(S) ==
  IF S = {} THEN <<>>
  ELSE LET m == CHOOSE x \in S : \A y \in S : x <= y
       IN <<m>> \o Ascending(S \ {m})

\* Map.delete(k)
Without(map, k) == [x \in DOMAIN map \ {k} |-> map[x]]
\* Map.set(k, v)
With(map, k, v) == [x \in DOMAIN map \cup {k} |-> IF x = k THEN v ELSE map[x]]

RECURSIVE SumOver(_, _)
SumOver(S, map) ==
  IF S = {} THEN 0
  ELSE LET x == CHOOSE y \in S : TRUE
       IN map[x].size + SumOver(S \ {x}, map)

----------------------------------------------------------------------------
(* MemStorage constructor *)

DemoUser ==
  [username |-> "demo@example.com", name |-> "Demo User",
   avatar |-> "https://images.unsplash.com/photo",
   storageLimit |-> StorageLimit, storageUsed |-> 0]

\* res: the last call or request and its outcome.  op names the method or
\* route, user the authenticated user (0: none), id the id it targets,
\* arg a second id it names (0: none), status the HTTP status (0: a store
\* call), ret the value returned, tok the token involved (0: none), name
\* the folder name a POST names, data the fields an update call was given
NoRes == [op |-> "new", user |-> 0, id |-> 0, arg |-> 0, status |-> 0,
          ret |-> "none", tok |-> 0, name |-> "", data |-> << >>]

Result(op, user, id, status, ret) ==
  [op |-> op, user |-> user, id |-> id, arg |-> 0, status |-> status,
   ret |-> ret, tok |-> 0, name |-> "",
   data |-> << >>]

Init ==
  /\ users = (1 :> DemoUser)
  /\ folders = << >>
  /\ files = << >>
  /\ shares = << >>
  /\ currentUserId = 1
  /\ currentFolderId = 1
  /\ currentFileId = 1
  /\ currentShareId = 1
  /\ now = 0
  /\ res = NoRes
  /\ pending = << >>
  /\ ui = << >>

----------------------------------------------------------------------------
(* MemStorage: entity store *)

\* the four maps, passed through the helpers that several methods share
St == [users |-> users, folders |-> folders, files |-> files, shares |-> shares]

\* an update of storageUsed without the floor of 0
StorageUsedAfter_NoClamp(used, sizeDelta) == used + sizeDelta

\* updateUserStorageUsed(userId, sizeDelta) on the users map
StorageUsedAfter(used, sizeDelta) == Max(used + sizeDelta, 0)

updateUserStorageUsedOn(us, userId, sizeDelta) ==
  IF userId \notin DOMAIN us THEN us
  ELSE [us EXCEPT ![userId].storageUsed = StorageUsedAfter(@, sizeDelta)]

\* the user record createUser stores
NewUser(insertUser) ==
  [username |-> insertUser.username, name |-> insertUser.name,
   avatar |-> insertUser.avatar,
   storageLimit |-> StorageLimit, storageUsed |-> 0]

\* the folder record createFolder stores: { ...folder, id, createdAt }
\* (createdAt, like a file's type and path, is read by no operation and is
\* left out of the records)
NewFolder(folder, id) ==
  [id |-> id, name |-> folder.name, userId |-> folder.userId,
   parentId |-> folder.parentId,
   inTrash |-> UndefinedT, deletedAt |-> Undefined, starred |-> UndefinedT,
   isShared |-> UndefinedT, modifiedAt |-> Undefined]

\* the file record createFile stores:
\* { ...file, id, starred: false, createdAt, modifiedAt }
NewFile(file, id) ==
  [id |-> id, name |-> file.name, size |-> file.size, userId |-> file.userId,
   folderId |-> file.folderId, starred |-> "false", modifiedAt |-> now,
   isShared |-> UndefinedT, inTrash |-> UndefinedT, deletedAt |-> Undefined,
   lastAccessedAt |-> Undefined]

\* the share record createShare stores: { ...share, token, id, createdAt }
NewShare(share, id, token) ==
  [id |-> id, token |-> token, fileId |-> share.fileId,
   folderId |-> share.folderId, userId |-> share.userId,
   accessType |-> share.accessType, allowDownload |-> share.allowDownload,
   expiryDate |-> share.expiryDate]

\* the arguments of createFile, createFolder and createShare
InsertFile(name, size, userId, folderId) ==
  [name |-> name, size |-> size, userId |-> userId, folderId |-> folderId]

InsertFolder(name, userId, parentId) ==
  [name |-> name, userId |-> userId, parentId |-> parentId]

InsertShare(fileId, folderId, userId, accessType, allowDownload, expiryDate) ==
  [fileId |-> fileId, folderId |-> folderId, userId |-> userId,
   accessType |-> accessType, allowDownload |-> allowDownload,
   expiryDate |-> expiryDate]

\* a createFile that forgets the accounting step
UsersAfterCreateFile_NoAccounting(us, file) == us

\* createFile's accounting: user.storageUsed += file.size (no clamp)
UsersAfterCreateFile(us, file) ==
  IF file.userId \in DOMAIN us
  THEN [us EXCEPT ![file.userId].storageUsed = @ + file.size]
  ELSE us

\* a deleteFile that leaves the shares alone
SharesAfterDeleteFile_KeepsAll(sh, id) == sh

\* the shares deleteFile keeps: every share whose fileId is not id
SharesAfterDeleteFile(sh, id) ==
  [s \in {x \in DOMAIN sh : sh[x].fileId # id} |-> sh[s]]

\* deleteFile(id) on a store value
deleteFileOn(st, id) ==
  IF id \notin DOMAIN st.files THEN st
  ELSE [st EXCEPT
          !.users = updateUserStorageUsedOn(@, st.files[id].userId,
                                            0 - st.files[id].size),
          !.shares = SharesAfterDeleteFile(@, id),
          !.files = Without(@, id)]

RECURSIVE deleteFilesOn(_, _)
deleteFilesOn(st, ids) ==
  IF ids = <<>> THEN st
  ELSE deleteFilesOn(deleteFileOn(st, Head(ids)), Tail(ids))

\* the folderFiles snapshot of deleteFolder, in Map order
FolderFiles(st, id) ==
  Ascending({f \in DOMAIN st.files : st.files[f].folderId = id})

\* the subfolders snapshot of deleteFolder, in Map order
Subfolders(st, id) ==
  Ascending({f \in DOMAIN st.folders : st.folders[f].parentId = id})

\* the last statement of deleteFolder: this.folders.delete(id)
FoldersAfterDelete(fs, id) == Without(fs, id)

\* deleteFolder(id).  stack holds the ids of the calls in progress: a call
\* that meets an id already on the stack recurses without end (nothing is
\* left to change on the way round) until the engine raises RangeError,
\* which rejects every call in progress.  The value is the store and
\* whether the call threw.
RECURSIVE deleteFolderRec(_, _, _)
RECURSIVE deleteSubfolders(_, _, _)
deleteFolderRec(st, id, stack) ==
  IF id \in stack THEN [st |-> st, thrown |-> TRUE]
  ELSE LET afterFiles == deleteFilesOn(st, FolderFiles(st, id))
           r == deleteSubfolders(afterFiles, Subfolders(afterFiles, id),
                                 stack \cup {id})
       IN IF r.thrown THEN r
          ELSE [st |-> [r.st EXCEPT !.folders = FoldersAfterDelete(@, id)],
                thrown |-> FALSE]

deleteSubfolders(st, subs, stack) ==
  IF subs = <<>> THEN [st |-> st, thrown |-> FALSE]
  ELSE LET r == deleteFolderRec(st, Head(subs), stack)
       IN IF r.thrown THEN r ELSE deleteSubfolders(r.st, Tail(subs), stack)

deleteFolderOn(st, id) == deleteFolderRec(st, id, {})

----------------------------------------------------------------------------
(* MemStorage: the methods.  storage_m is the call storage.m(...) as a     *)
(* route makes it (its effect on the maps and counters); m is the call as  *)
(* a step of its own, which also records what it returned in res.          *)

storage_createUser(insertUser) ==
  /\ users' = With(users, currentUserId, NewUser(insertUser))
  /\ currentUserId' = currentUserId + 1
  /\ UNCHANGED <<folders, files, shares, currentFolderId, currentFileId,
                 currentShareId>>

createUser(insertUser) ==
  /\ storage_createUser(insertUser)
  /\ UNCHANGED <<pending, ui>>
  /\ res' = Result("createUser", 0, currentUserId, 0, "record")
  /\ UNCHANGED now

storage_createFolder(folder) ==
  /\ folders' = With(folders, currentFolderId, NewFolder(folder, currentFolderId))
  /\ currentFolderId' = currentFolderId + 1
  /\ UNCHANGED <<users, files, shares, currentUserId, currentFileId,
                 currentShareId>>

createFolder(folder) ==
  /\ storage_createFolder(folder)
  /\ UNCHANGED <<pending, ui>>
  /\ res' = Result("createFolder", 0, currentFolderId, 0, "record")
  /\ UNCHANGED now

\* an updateFolder that stamps modifiedAt as updateFile does
storage_updateFolder_Stamps(id, data) ==
  /\ folders' = IF id \in DOMAIN folders
                THEN [folders EXCEPT
                        ![id] = Merge(Merge(@, data), [modifiedAt |-> now])]
                ELSE folders
  /\ UNCHANGED <<users, files, shares, currentUserId, currentFolderId,
                 currentFileId, currentShareId>>

storage_updateFolder(id, data) ==
  /\ folders' = IF id \in DOMAIN folders
                THEN [folders EXCEPT ![id] = Merge(@, data)]
                ELSE folders
  /\ UNCHANGED <<users, files, shares, currentUserId, currentFolderId,
                 currentFileId, currentShareId>>

updateFolder(id, data) ==
  /\ storage_updateFolder(id, data)
  /\ UNCHANGED <<pending, ui>>
  /\ res' = [Result("updateFolder", 0, id, 0,
                      IF id \in DOMAIN folders THEN "record" ELSE "undefined")
               EXCEPT !.data = data]
  /\ UNCHANGED now

storage_deleteFolder(id) ==
  LET r == deleteFolderOn(St, id)
  IN /\ users' = r.st.users
     /\ folders' = r.st.folders
     /\ files' = r.st.files
     /\ shares' = r.st.shares
     /\ UNCHANGED <<currentUserId, currentFolderId, currentFileId,
                    currentShareId>>

deleteFolder(id) ==
  /\ storage_deleteFolder(id)
  /\ UNCHANGED <<pending, ui>>
  /\ res' = Result("deleteFolder", 0, id, 0,
                   IF deleteFolderOn(St, id).thrown THEN "throws"
                   ELSE IF id \in DOMAIN folders THEN "true" ELSE "false")
  /\ UNCHANGED now

storage_createFile(file) ==
  /\ files' = With(files, currentFileId, NewFile(file, currentFileId))
  /\ currentFileId' = currentFileId + 1
  /\ users' = UsersAfterCreateFile(users, file)
  /\ UNCHANGED <<folders, shares, currentUserId, currentFolderId,
                 currentShareId>>

createFile(file) ==
  /\ storage_createFile(file)
  /\ UNCHANGED <<pending, ui>>
  /\ res' = Result("createFile", 0, currentFileId, 0, "record")
  /\ UNCHANGED now

\* an accounting step that also gives back the bytes of a file moved to trash
UsersAfterUpdateFile_FreesTrash(us, file, data) ==
  IF "inTrash" \in DOMAIN data /\ data.inTrash = "true"
  THEN updateUserStorageUsedOn(us, file.userId, 0 - file.size)
  ELSE us

\* the users map after updateFile's accounting step
UsersAfterUpdateFile(us, file, data) ==
  IF "size" \in DOMAIN data /\ data.size # Undefined /\ data.size # file.size
  THEN updateUserStorageUsedOn(us, file.userId, data.size - file.size)
  ELSE us

storage_updateFile(id, data) ==
  /\ IF id \in DOMAIN files
     THEN /\ users' = UsersAfterUpdateFile(users, files[id], data)
          /\ files' = [files EXCEPT
                         ![id] = Merge(Merge(@, data), [modifiedAt |-> now])]
     ELSE UNCHANGED <<users, files>>
  /\ UNCHANGED <<folders, shares, currentUserId, currentFolderId,
                 currentFileId, currentShareId>>

updateFile(id, data) ==
  /\ storage_updateFile(id, data)
  /\ UNCHANGED <<pending, ui>>
  /\ res' = [Result("updateFile", 0, id, 0,
                      IF id \in DOMAIN files THEN "record" ELSE "undefined")
               EXCEPT !.data = data]
  /\ UNCHANGED now

storage_deleteFile(id) ==
  LET st == deleteFileOn(St, id)
  IN /\ users' = st.users
     /\ files' = st.files
     /\ shares' = st.shares
     /\ UNCHANGED <<folders, currentUserId, currentFolderId, currentFileId,
                    currentShareId>>

deleteFile(id) ==
  /\ storage_deleteFile(id)
  /\ UNCHANGED <<pending, ui>>
  /\ res' = Result("deleteFile", 0, id, 0,
                   IF id \in DOMAIN files THEN "true" ELSE "false")
  /\ UNCHANGED now

\* randomBytes(16).toString('hex'): 128 random bits, taken to differ from
\* the token of every stored share
Tokens == 1..(MaxShareId + 1)
FreshTokens == Tokens \ {shares[s].token : s \in DOMAIN shares}

storage_createShare(share, token) ==
  /\ shares' = With(shares, currentShareId, NewShare(share, currentShareId, token))
  /\ currentShareId' = currentShareId + 1
  /\ UNCHANGED <<users, folders, files, currentUserId, currentFolderId,
                 currentFileId>>

createShare(share, token) ==
  /\ storage_createShare(share, token)
  /\ UNCHANGED <<pending, ui>>
  /\ res' = [Result("createShare", 0, currentShareId, 0, "record")
               EXCEPT !.tok = token]
  /\ UNCHANGED now

storage_deleteShare(id) ==
  /\ shares' = Without(shares, id)
  /\ UNCHANGED <<users, folders, files, currentUserId, currentFolderId,
                 currentFileId, currentShareId>>

deleteShare(id) ==
  /\ storage_deleteShare(id)
  /\ UNCHANGED <<pending, ui>>
  /\ res' = Result("deleteShare", 0, id, 0,
                   IF id \in DOMAIN shares THEN "true" ELSE "false")
  /\ UNCHANGED now

storage_updateUserStorageUsed(userId, sizeDelta) ==
  /\ users' = updateUserStorageUsedOn(users, userId, sizeDelta)
  /\ UNCHANGED <<folders, files, shares, currentUserId, currentFolderId,
                 currentFileId, currentShareId>>

updateUserStorageUsed(userId, sizeDelta) ==
  /\ storage_updateUserStorageUsed(userId, sizeDelta)
  /\ UNCHANGED <<pending, ui>>
  /\ res' = Result("updateUserStorageUsed", 0, userId, 0,
                   IF userId \in DOMAIN users THEN "record" ELSE "undefined")
  /\ UNCHANGED now

\* the wall clock advances between calls
Tick ==
  /\ now < MaxTime
  /\ now' = now + 1
  /\ UNCHANGED <<store, res, pending, ui>>


----------------------------------------------------------------------------
(* MemStorage: lookups and derived views (they read the maps only) *)

\* Array.prototype.filter over a Map's values is SelectSeq over the ids in
\* Map order

getUser(id) == IF id \in DOMAIN users THEN <<users[id]>> ELSE <<>>
getFolder(id) == IF id \in DOMAIN folders THEN <<folders[id]>> ELSE <<>>
getFile(id) == IF id \in DOMAIN files THEN <<files[id]>> ELSE <<>>

\* FileWithPath: { ...file, url: `/api/files/${file.id}/download` }
WithUrl(file) == Merge(file, [url |-> <<"/api/files/", file.id, "/download">>])

\* folder statistics that also count the files of the folder's subfolders
WithStats_CountsSubfolders(folder) ==
  LET folderFiles ==
        {f \in DOMAIN files :
           \/ files[f].folderId = folder.id
           \/ /\ files[f].folderId \in DOMAIN folders
              /\ folders[files[f].folderId].parentId = folder.id}
  IN Merge(folder, [fileCount |-> Cardinality(folderFiles),
                    totalSize |-> SumOver(folderFiles, files)])

\* FolderWithStats: { ...folder, fileCount, totalSize } over the files whose
\* folderId is the folder's id
WithStats(folder) ==
  LET folderFiles == {f \in DOMAIN files : files[f].folderId = folder.id}
  IN Merge(folder, [fileCount |-> Cardinality(folderFiles),
                    totalSize |-> SumOver(folderFiles, files)])

FileView(ids) == [i \in 1..Len(ids) |-> WithUrl(files[ids[i]])]
FolderView(ids) == [i \in 1..Len(ids) |-> WithStats(folders[ids[i]])]

getFoldersByUserId(userId, parentId) ==
  LET Keep(f) == /\ folders[f].userId = userId
                 /\ folders[f].parentId =
                      (IF parentId = Undefined THEN Null ELSE parentId)
  IN FolderView(SelectSeq(Ascending(DOMAIN folders), Keep))

\* a starred filter that forgets to leave out the trash
StarredFile_KeepsTrash(f, userId) ==
  /\ files[f].userId = userId
  /\ files[f].starred = "true"

StarredFile(f, userId) ==
  /\ files[f].userId = userId
  /\ files[f].starred = "true"
  /\ ~TruthyB(files[f].inTrash)

getStarredFiles(userId) ==
  LET Keep(f) == StarredFile(f, userId)
  IN FileView(SelectSeq(Ascending(DOMAIN files), Keep))

\* thirtyDaysAgo.setDate(thirtyDaysAgo.getDate() - 30), where the clock
\* counts periods of 30 days
ThirtyDays == 1

\* a recent filter that forgets to leave out the trash
RecentFile_KeepsTrash(f, userId) ==
  /\ files[f].userId = userId
  /\ TruthyD(files[f].lastAccessedAt)
  /\ files[f].lastAccessedAt >= now - ThirtyDays

\* the filter of getRecentFiles
RecentFile(f, userId) ==
  /\ files[f].userId = userId
  /\ TruthyD(files[f].lastAccessedAt)
  /\ files[f].lastAccessedAt >= now - ThirtyDays
  /\ ~TruthyB(files[f].inTrash)

\* Array.prototype.sort with (a, b) => dateB - dateA: newest first, files
\* with equal lastAccessedAt keeping their order (the sort is stable)
RECURSIVE SortNewestFirst(_, _)
SortNewestFirst(sorted, ids) ==
  IF ids = <<>> THEN sorted
  ELSE LET x == Head(ids)
           k == Cardinality({i \in 1..Len(sorted) :
                               files[sorted[i]].lastAccessedAt
                                 >= files[x].lastAccessedAt})
       IN SortNewestFirst(SubSeq(sorted, 1, k) \o <<x>>
                            \o SubSeq(sorted, k + 1, Len(sorted)),
                          Tail(ids))

getRecentFiles(userId) ==
  LET Keep(f) == RecentFile(f, userId)
  IN FileView(SortNewestFirst(<<>>, SelectSeq(Ascending(DOMAIN files), Keep)))

\* a trash filter that forgets whose file it is
TrashedFile_AnyOwner(f, userId) ==
  files[f].inTrash = "true"

TrashedFile(f, userId) ==
  /\ files[f].userId = userId
  /\ files[f].inTrash = "true"

getTrashedFiles(userId) ==
  LET Keep(f) == TrashedFile(f, userId)
  IN FileView(SelectSeq(Ascending(DOMAIN files), Keep))

StarredFolder(f, userId) ==
  /\ folders[f].userId = userId
  /\ folders[f].starred = "true"
  /\ ~TruthyB(folders[f].inTrash)

getStarredFolders(userId) ==
  LET Keep(f) == StarredFolder(f, userId)
  IN FolderView(SelectSeq(Ascending(DOMAIN folders), Keep))

TrashedFolder(f, userId) ==
  /\ folders[f].userId = userId
  /\ folders[f].inTrash = "true"

getTrashedFolders(userId) ==
  LET Keep(f) == TrashedFolder(f, userId)
  IN FolderView(SelectSeq(Ascending(DOMAIN folders), Keep))

getFilesByUserId(userId, folderId) ==
  LET Keep(f) == /\ files[f].userId = userId
                 /\ files[f].folderId =
                      (IF folderId = Undefined THEN Null ELSE folderId)
  IN FileView(SelectSeq(Ascending(DOMAIN files), Keep))

\* a shared filter that looks at the user's shares only and not at the flag
SharedFile_IgnoresFlag(f, userId) ==
  LET fileShares == {shares[s].fileId :
                       s \in {x \in DOMAIN shares :
                                /\ shares[x].userId = userId
                                /\ shares[x].fileId # Undefined}}
  IN /\ files[f].userId = userId
     /\ f \in fileShares
     /\ ~TruthyB(files[f].inTrash)

\* the filter of getSharedFiles: fileShares.includes(file.id) || file.isShared
SharedFile(f, userId) ==
  LET fileShares == {shares[s].fileId :
                       s \in {x \in DOMAIN shares :
                                /\ shares[x].userId = userId
                                /\ shares[x].fileId # Undefined}}
  IN /\ files[f].userId = userId
     /\ (f \in fileShares \/ TruthyB(files[f].isShared))
     /\ ~TruthyB(files[f].inTrash)

getSharedFiles(userId) ==
  LET Keep(f) == SharedFile(f, userId)
  IN FileView(SelectSeq(Ascending(DOMAIN files), Keep))

\* the filter of getSharedFolders
SharedFolder(f, userId) ==
  LET folderShares == {shares[s].folderId :
                         s \in {x \in DOMAIN shares :
                                  /\ shares[x].userId = userId
                                  /\ shares[x].folderId # Undefined}}
  IN /\ folders[f].userId = userId
     /\ (f \in folderShares \/ TruthyB(folders[f].isShared))
     /\ ~TruthyB(folders[f].inTrash)

getSharedFolders(userId) ==
  LET Keep(f) == SharedFolder(f, userId)
  IN FolderView(SelectSeq(Ascending(DOMAIN folders), Keep))

\* a sharedBy that shows the name without falling back to the username
SharedBy_NoFallback(userId) ==
  IF userId \in DOMAIN users
  THEN <<[name |-> users[userId].name,
          avatar |-> OrT(users[userId].avatar, "")]>>
  ELSE <<>>

\* the sharer's public fields: { name: user.name || user.username,
\*                               avatar: user.avatar || '' }
SharedBy(userId) ==
  IF userId \in DOMAIN users
  THEN <<[name |-> OrT(users[userId].name, users[userId].username),
          avatar |-> OrT(users[userId].avatar, "")]>>
  ELSE <<>>

\* ShareWithDetails: { ...share, file, folder, sharedBy }
WithDetails(share) ==
  Merge(share,
        [file |-> IF TruthyN(share.fileId) THEN getFile(share.fileId) ELSE <<>>,
         folder |-> IF TruthyN(share.folderId) THEN getFolder(share.folderId)
                    ELSE <<>>,
         sharedBy |-> SharedBy(share.userId)])

\* a lookup that leaves out the shares whose expiryDate has passed
FoundByToken_SkipsExpired(token) ==
  LET Keep(s) == /\ shares[s].token = token
                 /\ ~(TruthyD(shares[s].expiryDate) /\ shares[s].expiryDate < now)
  IN SelectSeq(Ascending(DOMAIN shares), Keep)

\* the share getShareByToken's find() picks: the first in Map order
FoundByToken(token) ==
  LET Keep(s) == shares[s].token = token
  IN SelectSeq(Ascending(DOMAIN shares), Keep)

getShareByToken(token) ==
  LET found == FoundByToken(token)
  IN IF found = <<>> THEN <<>> ELSE <<WithDetails(shares[Head(found)])>>

getSharesByUserId(userId) ==
  LET Keep(s) == shares[s].userId = userId
      ids == SelectSeq(Ascending(DOMAIN shares), Keep)
  IN [i \in 1..Len(ids) |-> WithDetails(shares[ids[i]])]

----------------------------------------------------------------------------
(* Route handlers.  u is the authenticated user's id (req.user.id), 0 for  *)
(* a request without a session; each handler answers with a status and     *)
(* records it in res.                                                      *)

Respond(op, u, id, arg, status) ==
  [op |-> op, user |-> u, id |-> id, arg |-> arg, status |-> status,
   ret |-> "none", tok |-> 0, name |-> "",
   data |-> << >>]

\* requireAuth
isAuthenticated(u) == u \in DOMAIN users

\* validateRequest(insertFolderSchema): name and userId are required
\* (notNull columns without a default), parentId is optional and nullable
ValidInsertFolder(name, parentId, bodyUserId) ==
  /\ name # UndefinedT
  /\ bodyUserId # Undefined

\* the duplicate check of POST /api/folders
folderExists(u, name, parentId) ==
  LET userFolders == getFoldersByUserId(u, OrNull(parentId))
  IN \E i \in 1..Len(userFolders) :
        toLowerCase(userFolders[i].name) = toLowerCase(name)

\* POST /api/folders without the tests on the parent folder
PostFolderStatus_NoParentTest(u, name, parentId, bodyUserId) ==
  IF ~isAuthenticated(u) THEN 401
  ELSE IF ~ValidInsertFolder(name, parentId, bodyUserId) THEN 400
  ELSE IF folderExists(u, name, parentId) THEN 409
  ELSE 201

\* POST /api/folders: the status it answers
PostFolderStatus(u, name, parentId, bodyUserId) ==
  IF ~isAuthenticated(u) THEN 401
  ELSE IF ~ValidInsertFolder(name, parentId, bodyUserId) THEN 400
  ELSE IF parentId # Null /\ parentId # Undefined /\ getFolder(parentId) = <<>>
       THEN 404
  ELSE IF parentId # Null /\ parentId # Undefined
          /\ folders[parentId].userId # u THEN 403
  ELSE IF folderExists(u, name, parentId) THEN 409
  ELSE 201

PostFolder(u, name, parentId, bodyUserId) ==
  LET status == PostFolderStatus(u, name, parentId, bodyUserId)
  IN /\ IF status = 201
        THEN storage_createFolder(InsertFolder(name, u, OrNull(parentId)))
        ELSE UNCHANGED store
     /\ UNCHANGED <<pending, ui>>
     /\ res' = [Respond("POST /api/folders", u,
                        IF status = 201 THEN currentFolderId ELSE 0,
                        IF TruthyN(parentId) THEN parentId ELSE 0, status)
                  EXCEPT !.name = IF name = UndefinedT THEN "" ELSE name]
     /\ UNCHANGED now

\* PATCH /api/folders/:id: updateData built from the body
PatchFolderData(folder, name, starred, inTrash) ==
  LET d1 == IF name # UndefinedT THEN [name |-> name] ELSE << >>
      d2 == IF starred # UndefinedT THEN Merge(d1, [starred |-> starred])
            ELSE d1
      d3 == IF inTrash # UndefinedT /\ inTrash # folder.inTrash
            THEN Merge(d2, [inTrash |-> inTrash,
                            deletedAt |-> IF TruthyB(inTrash) THEN now
                                          ELSE Null])
            ELSE d2
  IN Merge(d3, [modifiedAt |-> now])

PatchFolderStatus(u, id) ==
  IF ~isAuthenticated(u) THEN 401
  ELSE IF getFolder(id) = <<>> THEN 404
  ELSE IF folders[id].userId # u THEN 403
  ELSE 200

PatchFolder(u, id, name, starred, inTrash) ==
  LET status == PatchFolderStatus(u, id)
  IN /\ IF status = 200
        THEN storage_updateFolder(id, PatchFolderData(folders[id], name,
                                                      starred, inTrash))
        ELSE UNCHANGED store
     /\ UNCHANGED <<pending, ui>>
     /\ res' = Respond("PATCH /api/folders/:id", u, id, 0, status)
     /\ UNCHANGED now

DeleteFolderStatus(u, id) ==
  IF ~isAuthenticated(u) THEN 401
  ELSE IF getFolder(id) = <<>> THEN 404
  ELSE IF folders[id].userId # u THEN 403
  ELSE IF deleteFolderOn(St, id).thrown THEN 500
  ELSE 204

DeleteFolderRoute(u, id) ==
  LET status == DeleteFolderStatus(u, id)
  IN /\ IF status \in {204, 500}
        THEN storage_deleteFolder(id)
        ELSE UNCHANGED store
     /\ UNCHANGED <<pending, ui>>
     /\ res' = Respond("DELETE /api/folders/:id", u, id, 0, status)
     /\ UNCHANGED now

\* req.body.folderId ? parseInt(req.body.folderId) : null, the form field
\* being a string of digits when present
UploadFolderId(rawFolderId) ==
  IF rawFolderId = Undefined THEN Null ELSE rawFolderId

\* a quota check that lets every upload through
NotEnoughSpace_Never(user, size) == FALSE

\* the quota check of POST /api/files/upload
NotEnoughSpace(user, size) == user.storageUsed + size > user.storageLimit

\* POST /api/files/upload: the status it answers
UploadStatus(u, hasFile, size, rawFolderId) ==
  LET folderId == UploadFolderId(rawFolderId)
  IN IF ~isAuthenticated(u) THEN 401
     ELSE IF ~hasFile THEN 400
     ELSE IF getUser(u) = <<>> THEN 404
     ELSE IF NotEnoughSpace(users[u], size) THEN 400
     ELSE IF TruthyN(folderId)
             /\ (getFolder(folderId) = <<>> \/ folders[folderId].userId # u)
          THEN 400
     ELSE 201

Upload(u, hasFile, name, size, rawFolderId) ==
  LET status == UploadStatus(u, hasFile, size, rawFolderId)
  IN /\ IF status = 201
        THEN storage_createFile(InsertFile(name, size, u,
                                           UploadFolderId(rawFolderId)))
        ELSE UNCHANGED store
     /\ UNCHANGED <<pending, ui>>
     /\ res' = Respond("POST /api/files/upload", u,
                       IF status = 201 THEN currentFileId ELSE 0,
                       IF TruthyN(UploadFolderId(rawFolderId))
                       THEN rawFolderId ELSE 0, status)
     /\ UNCHANGED now

\* GET /api/files/:id/download; onDisk is fs.existsSync(file.path)
DownloadStatus(u, id, onDisk) ==
  IF ~isAuthenticated(u) THEN 401
  ELSE IF getFile(id) = <<>> THEN 404
  ELSE IF files[id].userId # u THEN 403
  ELSE IF ~onDisk THEN 404
  ELSE 200

Download(u, id, onDisk) ==
  /\ UNCHANGED <<pending, ui>>
  /\ res' = Respond("GET /api/files/:id/download", u, id, 0,
                    DownloadStatus(u, id, onDisk))
  /\ UNCHANGED <<store, now>>

\* an updateData that carries the trash flag without deletedAt
PatchFileData_NoDeletedAt(file, name, folderId, starred, inTrash) ==
  LET d1 == [name |-> IF name # UndefinedT THEN name ELSE file.name,
             folderId |-> IF folderId # Undefined THEN folderId
                          ELSE file.folderId,
             starred |-> IF starred # UndefinedT THEN starred
                         ELSE file.starred]
      d2 == IF inTrash # UndefinedT /\ inTrash # file.inTrash
            THEN Merge(d1, [inTrash |-> inTrash])
            ELSE d1
  IN IF ~TruthyB(inTrash) THEN Merge(d2, [lastAccessedAt |-> now]) ELSE d2

\* an updateData that puts a restored file back at the top level
PatchFileData_RestoresToRoot(file, name, folderId, starred, inTrash) ==
  LET d1 == [name |-> IF name # UndefinedT THEN name ELSE file.name,
             folderId |-> IF folderId # Undefined THEN folderId
                          ELSE file.folderId,
             starred |-> IF starred # UndefinedT THEN starred
                         ELSE file.starred]
      d2 == IF inTrash # UndefinedT /\ inTrash # file.inTrash
            THEN Merge(d1, [inTrash |-> inTrash,
                            folderId |-> IF TruthyB(inTrash) THEN d1.folderId
                                         ELSE Null,
                            deletedAt |-> IF TruthyB(inTrash) THEN now
                                          ELSE Null])
            ELSE d1
  IN IF ~TruthyB(inTrash) THEN Merge(d2, [lastAccessedAt |-> now]) ELSE d2

\* PATCH /api/files/:id: updateData built from the body
PatchFileData(file, name, folderId, starred, inTrash) ==
  LET d1 == [name |-> IF name # UndefinedT THEN name ELSE file.name,
             folderId |-> IF folderId # Undefined THEN folderId
                          ELSE file.folderId,
             starred |-> IF starred # UndefinedT THEN starred
                         ELSE file.starred]
      d2 == IF inTrash # UndefinedT /\ inTrash # file.inTrash
            THEN Merge(d1, [inTrash |-> inTrash,
                            deletedAt |-> IF TruthyB(inTrash) THEN now
                                          ELSE Null])
            ELSE d1
  IN IF ~TruthyB(inTrash) THEN Merge(d2, [lastAccessedAt |-> now]) ELSE d2

PatchFileStatus(u, id, folderId) ==
  IF ~isAuthenticated(u) THEN 401
  ELSE IF getFile(id) = <<>> THEN 404
  ELSE IF files[id].userId # u THEN 403
  ELSE IF folderId # Undefined /\ folderId # files[id].folderId
          /\ folderId # Null
          /\ (getFolder(folderId) = <<>> \/ folders[folderId].userId # u)
       THEN 400
  ELSE 200

PatchFile(u, id, name, folderId, starred, inTrash) ==
  LET status == PatchFileStatus(u, id, folderId)
  IN /\ IF status = 200
        THEN storage_updateFile(id, PatchFileData(files[id], name, folderId,
                                                  starred, inTrash))
        ELSE UNCHANGED store
     /\ UNCHANGED <<pending, ui>>
     /\ res' = Respond("PATCH /api/files/:id", u, id,
                       IF TruthyN(folderId) THEN folderId ELSE 0, status)
     /\ UNCHANGED now

\* DELETE /api/files/:id without the ownership test
DeleteFileStatus_NoOwnerCheck(u, id) ==
  IF ~isAuthenticated(u) THEN 401
  ELSE IF getFile(id) = <<>> THEN 404
  ELSE 204

DeleteFileStatus(u, id) ==
  IF ~isAuthenticated(u) THEN 401
  ELSE IF getFile(id) = <<>> THEN 404
  ELSE IF files[id].userId # u THEN 403
  ELSE 204

DeleteFileRoute(u, id) ==
  LET status == DeleteFileStatus(u, id)
  IN /\ IF status = 204 THEN storage_deleteFile(id) ELSE UNCHANGED store
     /\ UNCHANGED <<pending, ui>>
     /\ res' = Respond("DELETE /api/files/:id", u, id, 0, status)
     /\ UNCHANGED now

\* POST /api/shares without the test for exactly one of fileId and folderId
PostShareStatus_NoTargetTest(u, fileId, folderId) ==
  IF ~isAuthenticated(u) THEN 401
  ELSE IF TruthyN(fileId)
          /\ (getFile(fileId) = <<>> \/ files[fileId].userId # u) THEN 403
  ELSE IF TruthyN(folderId)
          /\ (getFolder(folderId) = <<>> \/ folders[folderId].userId # u)
       THEN 403
  ELSE 201

\* POST /api/shares: the status it answers
PostShareStatus(u, fileId, folderId) ==
  IF ~isAuthenticated(u) THEN 401
  ELSE IF (~TruthyN(fileId) /\ ~TruthyN(folderId))
          \/ (TruthyN(fileId) /\ TruthyN(folderId)) THEN 400
  ELSE IF TruthyN(fileId)
          /\ (getFile(fileId) = <<>> \/ files[fileId].userId # u) THEN 403
  ELSE IF TruthyN(folderId)
          /\ (getFolder(folderId) = <<>> \/ folders[folderId].userId # u)
       THEN 403
  ELSE 201

\* the InsertShare POST /api/shares passes to createShare
PostShareInsert(u, fileId, folderId, accessType, allowDownload, expiryDate) ==
  InsertShare(IF TruthyN(fileId) THEN fileId ELSE Undefined,
              IF TruthyN(folderId) THEN folderId ELSE Undefined,
              u,
              OrT(accessType, "public"),
              IF allowDownload = UndefinedT THEN "true" ELSE allowDownload,
              IF TruthyD(expiryDate) THEN expiryDate ELSE Undefined)

PostShare(u, fileId, folderId, accessType, allowDownload, expiryDate, token) ==
  LET status == PostShareStatus(u, fileId, folderId)
  IN /\ IF status = 201
        THEN storage_createShare(
               PostShareInsert(u, fileId, folderId, accessType, allowDownload,
                               expiryDate), token)
        ELSE UNCHANGED store
     /\ UNCHANGED <<pending, ui>>
     /\ res' = [Respond("POST /api/shares", u,
                        IF TruthyN(fileId) THEN fileId ELSE 0,
                        IF TruthyN(folderId) THEN folderId ELSE 0, status)
                  EXCEPT !.tok = IF status = 201 THEN token ELSE 0]
     /\ UNCHANGED now

\* an expiry check that never finds a share expired
hasExpired_Never(share) == FALSE

\* the expiry check of GET /api/shares/:token
hasExpired(share) == TruthyD(share.expiryDate) /\ share.expiryDate < now

\* GET /api/shares/:token (no session needed): the status it answers
GetShareStatus(token) ==
  LET share == getShareByToken(token)
  IN IF share = <<>> THEN 404
     ELSE IF hasExpired(share[1]) THEN 403
     ELSE 200

GetShare(token) ==
  /\ UNCHANGED <<pending, ui>>
  /\ res' = [Respond("GET /api/shares/:token", 0, 0, 0, GetShareStatus(token))
               EXCEPT !.tok = token,
                      !.id = IF GetShareStatus(token) = 200
                             THEN getShareByToken(token)[1].id ELSE 0]
  /\ UNCHANGED <<store, now>>

\* DELETE /api/shares/:id
DeleteShareStatus(u, id) ==
  LET mine == getSharesByUserId(u)
  IN IF ~isAuthenticated(u) THEN 401
     ELSE IF ~\E i \in 1..Len(mine) : mine[i].id = id THEN 404
     ELSE 204

DeleteShareRoute(u, id) ==
  LET status == DeleteShareStatus(u, id)
  IN /\ IF status = 204 THEN storage_deleteShare(id) ELSE UNCHANGED store
     /\ UNCHANGED <<pending, ui>>
     /\ res' = Respond("DELETE /api/shares/:id", u, id, 0, status)
     /\ UNCHANGED now

----------------------------------------------------------------------------
(* Inputs the specifications draw from *)

UserIds == 1..MaxUserId
FolderIds == 1..MaxFolderId
FileIds == 1..MaxFileId
ShareIds == 1..MaxShareId
Times == 0..MaxTime
Sizes == 1..MaxUploadSize

Amy == [username |-> "amy@example.com", name |-> "Amy", avatar |-> "amy.png"]
Bob == [username |-> "bob@example.com", name |-> "", avatar |-> NullT]

\* the users map after the constructor and one createUser call for each
\* entry of inserts (the k-th call stores its user under id k)
RECURSIVE UsersAfterCreates(_)
UsersAfterCreates(inserts) ==
  IF inserts = <<>> THEN (1 :> DemoUser)
  ELSE LET n == Len(inserts)
       IN With(UsersAfterCreates(SubSeq(inserts, 1, n - 1)), n,
               NewUser(inserts[n]))

InsertUsers == {Amy, Bob}

----------------------------------------------------------------------------
(* SpecAccounting: createFile, updateFile, deleteFile and deleteFolder     *)
(* calls (with the createFolder and createShare calls that give them       *)
(* something to delete) on a store that holds up to MaxUserId users        *)

InitAccounting ==
  /\ users = UsersAfterCreates(<<Amy, Bob>>)
  /\ currentUserId = 3
  /\ folders = << >>
  /\ files = << >>
  /\ shares = << >>
  /\ currentFolderId = 1
  /\ currentFileId = 1
  /\ currentShareId = 1
  /\ now = 0
  /\ res = NoRes
  /\ pending = << >>
  /\ ui = << >>

AccCreateFile ==
  \E sz \in Sizes, u \in DOMAIN users, d \in {Null} \cup DOMAIN folders :
     /\ currentFileId <= MaxFileId
     /\ createFile(InsertFile("a", sz, u, d))

AccUpdateFile ==
  \E id \in DOMAIN files, sz \in Sizes : updateFile(id, [size |-> sz])

AccDeleteFile == \E id \in DOMAIN files : deleteFile(id)

AccDeleteFolder == \E id \in DOMAIN folders : deleteFolder(id)

AccCreateFolder ==
  \E p \in {Null} \cup DOMAIN folders :
     /\ currentFolderId <= MaxFolderId
     /\ createFolder(InsertFolder("a", 1, p))

NextAccounting ==
  \/ AccCreateFile
  \/ AccUpdateFile
  \/ AccDeleteFile
  \/ AccDeleteFolder
  \/ AccCreateFolder

SpecAccounting == InitAccounting /\ [][NextAccounting]_vars

\* the bytes held by the files stored for user u
StoredBytes(u) == SumOver({f \in DOMAIN files : files[f].userId = u}, files)

\* C1: after any sequence of createFile, updateFile, deleteFile and
\* deleteFolder calls every existing user's storageUsed equals the sum of
\* the sizes of the stored files whose userId is that user
C1_StorageUsedIsSumOfSizes ==
  \A u \in DOMAIN users : users[u].storageUsed = StoredBytes(u)

\* C1 witness: a size update and a cascade have run and two users hold bytes
C1_Witness ==
  /\ res.op = "deleteFolder"
  /\ \E u, v \in DOMAIN users :
        /\ u # v
        /\ users[u].storageUsed > 0
        /\ users[v].storageUsed > 0
        /\ \E f \in DOMAIN files : files[f].userId = u /\ files[f].modifiedAt = 0

----------------------------------------------------------------------------
(* SpecViews: files and folders of two users are created, starred,         *)
(* unstarred, trashed and restored; at most MaxViewItems items are created *)

InitViews == InitAccounting

ViewItems == (currentFileId - 1) + (currentFolderId - 1)

FlagUpdates ==
  { [starred |-> "true"], [starred |-> "false"],
    [inTrash |-> "true"], [inTrash |-> "false"] }

ViewCreateFile ==
  \E u \in DOMAIN users :
     /\ ViewItems < MaxViewItems
     /\ createFile(InsertFile("a", 1, u, Null))

ViewCreateFolder ==
  \E u \in DOMAIN users :
     /\ ViewItems < MaxViewItems
     /\ createFolder(InsertFolder("a", u, Null))

ViewUpdateFile ==
  \E id \in DOMAIN files, data \in FlagUpdates : updateFile(id, data)

ViewUpdateFolder ==
  \E id \in DOMAIN folders, data \in FlagUpdates : updateFolder(id, data)

NextViews ==
  \/ ViewCreateFile
  \/ ViewCreateFolder
  \/ ViewUpdateFile
  \/ ViewUpdateFolder

SpecViews == InitViews /\ [][NextViews]_vars

\* the ids a view lists, and whether it lists each once
ViewIds(view) == {view[i].id : i \in 1..Len(view)}
NoRepeats(view) == Cardinality(ViewIds(view)) = Len(view)

\* C7: the starred views list exactly the user's items with starred true and
\* inTrash not true, the trash views exactly the user's items with inTrash
\* true, each item once and as stored; no item is in a starred and a trash
\* view at once
C7_StarredAndTrashViews ==
  \A u \in DOMAIN users :
     LET sf == getStarredFiles(u)
         tf == getTrashedFiles(u)
         sd == getStarredFolders(u)
         td == getTrashedFolders(u)
     IN /\ ViewIds(sf) = {f \in DOMAIN files :
                            /\ files[f].userId = u
                            /\ files[f].starred = "true"
                            /\ files[f].inTrash # "true"}
        /\ ViewIds(tf) = {f \in DOMAIN files :
                            files[f].userId = u /\ files[f].inTrash = "true"}
        /\ ViewIds(sd) = {f \in DOMAIN folders :
                            /\ folders[f].userId = u
                            /\ folders[f].starred = "true"
                            /\ folders[f].inTrash # "true"}
        /\ ViewIds(td) = {f \in DOMAIN folders :
                            folders[f].userId = u /\ folders[f].inTrash = "true"}
        /\ NoRepeats(sf) /\ NoRepeats(tf) /\ NoRepeats(sd) /\ NoRepeats(td)
        /\ \A i \in 1..Len(sf) : sf[i].name = files[sf[i].id].name
        /\ \A i \in 1..Len(tf) : tf[i].name = files[tf[i].id].name
        /\ ViewIds(sf) \cap ViewIds(tf) = {}
        /\ ViewIds(sd) \cap ViewIds(td) = {}

\* C7 witness: a starred file has just been trashed while the other user
\* holds a starred item that is not in the trash
C7_Witness ==
  /\ res.op = "updateFile"
  /\ \E f \in DOMAIN files :
        /\ f = res.id
        /\ files[f].starred = "true"
        /\ files[f].inTrash = "true"
        /\ \E g \in DOMAIN files \cup DOMAIN folders :
              LET item == IF g \in DOMAIN files /\ g # f THEN files[g]
                          ELSE IF g \in DOMAIN folders THEN folders[g]
                          ELSE files[f]
              IN /\ item.userId # files[f].userId
                 /\ item.starred = "true"
                 /\ item.inTrash # "true"

----------------------------------------------------------------------------
(* SpecShares: two users create, rename and delete files and create and    *)
(* delete shares on them, with and without an expiry date, while time      *)
(* passes                                                                  *)

InitShares == InitAccounting

ShCreateFile ==
  \E u \in DOMAIN users :
     /\ currentFileId <= MaxSharedFiles
     /\ createFile(InsertFile("a", 1, u, Null))

ShRenameFile == \E id \in DOMAIN files : updateFile(id, [name |-> "b"])

ShCreateShare ==
  \E f \in DOMAIN files, u \in DOMAIN users,
     e \in {Undefined} \cup Times, t \in FreshTokens :
     /\ currentShareId <= MaxShareId
     /\ createShare(InsertShare(f, Undefined, u, "public", "true", e), t)

ShDeleteShare == \E id \in DOMAIN shares : deleteShare(id)

ShDeleteFile == \E id \in DOMAIN files : deleteFile(id)

NextShares ==
  \/ ShCreateFile
  \/ ShRenameFile
  \/ ShCreateShare
  \/ ShDeleteShare
  \/ ShDeleteFile
  \/ Tick

SpecShares == InitShares /\ [][NextShares]_vars

\* C8: for a stored share on a file F by user U, getShareByToken(token)
\* returns that share with file the stored record of F, no folder, and
\* sharedBy U's name (the username when the name is empty) and avatar (the
\* empty string when absent); for a token no share holds it returns
\* undefined
C8_ShareByTokenResolves ==
  /\ \A s \in DOMAIN shares :
        LET sh == shares[s]
            r == getShareByToken(sh.token)
            u == users[sh.userId]
        IN (sh.fileId \in DOMAIN files /\ sh.folderId = Undefined
              /\ sh.userId \in DOMAIN users)
           => /\ Len(r) = 1
              /\ r[1].id = s
              /\ r[1].token = sh.token
              /\ r[1].fileId = sh.fileId
              /\ r[1].userId = sh.userId
              /\ r[1].expiryDate = sh.expiryDate
              /\ r[1].file = <<files[sh.fileId]>>
              /\ r[1].folder = <<>>
              /\ r[1].sharedBy =
                   <<[name |-> IF u.name \in {"", NullT, UndefinedT}
                               THEN u.username ELSE u.name,
                      avatar |-> IF u.avatar \in {NullT, UndefinedT}
                                 THEN "" ELSE u.avatar]>>
  /\ \A t \in Tokens :
        (\A s \in DOMAIN shares : shares[s].token # t)
           => getShareByToken(t) = <<>>

\* C8 witness: a share by the user without a name on a file renamed after
\* the share was created, next to a token that no share holds
C8_Witness ==
  \E s \in DOMAIN shares :
     /\ shares[s].fileId \in DOMAIN files
     /\ files[shares[s].fileId].name = "b"
     /\ shares[s].userId \in DOMAIN users
     /\ users[shares[s].userId].name = ""
     /\ \E t \in Tokens : \A x \in DOMAIN shares : shares[x].token # t

\* C10: getShareByToken returns the share for every token a stored share
\* holds, whatever its expiryDate, also one in the past
C10_ExpiredShareStillReturned ==
  \A s \in DOMAIN shares :
     LET r == getShareByToken(shares[s].token)
     IN /\ Len(r) = 1
        /\ r[1].id = s
        /\ r[1].expiryDate = shares[s].expiryDate

\* C10 witness: a stored share whose expiryDate is in the past
C10_Witness ==
  \E s \in DOMAIN shares :
     /\ TruthyD(shares[s].expiryDate)
     /\ shares[s].expiryDate < now

----------------------------------------------------------------------------
(* Spec: users, folders, files and shares are created and deleted through *)
(* the methods of MemStorage, in any order, on the store the constructor  *)
(* builds                                                                  *)

StCreateUser ==
  /\ currentUserId <= MaxUserId
  /\ createUser(IF currentUserId = 1 THEN Amy ELSE Bob)

StCreateFolder ==
  \E u \in DOMAIN users, p \in {Null} \cup FolderIds :
     /\ currentFolderId <= MaxFolderId
     /\ createFolder(InsertFolder("a", u, p))

StDeleteFolder == \E id \in FolderIds : deleteFolder(id)

StMoveFolder ==
  \E id \in FolderIds, p \in {Null} \cup FolderIds :
     updateFolder(id, [parentId |-> p])

StCreateFile ==
  \E u \in DOMAIN users, d \in {Null} \cup DOMAIN folders :
     /\ currentFileId <= MaxFileId
     /\ createFile(InsertFile("a", 1, u, d))

StDeleteFile == \E id \in FileIds : deleteFile(id)

StCreateShareOnFile ==
  \E u \in DOMAIN users, t \in FreshTokens, f \in DOMAIN files :
     /\ currentShareId <= MaxShareId
     /\ createShare(InsertShare(f, Undefined, u, "public", "true", Undefined), t)

StCreateShareOnFolder ==
  \E u \in DOMAIN users, t \in FreshTokens, d \in DOMAIN folders :
     /\ currentShareId <= MaxShareId
     /\ createShare(InsertShare(Undefined, d, u, "public", "true", Undefined), t)

StDeleteShare == \E id \in ShareIds : deleteShare(id)

Next ==
  \/ StCreateUser
  \/ StCreateFolder
  \/ StDeleteFolder
  \/ StMoveFolder
  \/ StCreateFile
  \/ StDeleteFile
  \/ StCreateShareOnFile
  \/ StCreateShareOnFolder
  \/ StDeleteShare

Spec == Init /\ [][Next]_vars

\* the folder ids at or transitively below the ids of S in the folder map fs
RECURSIVE Below(_, _)
Below(fs, S) ==
  LET T == S \cup {f \in DOMAIN fs : fs[f].parentId \in S}
  IN IF T = S THEN S ELSE Below(fs, T)

\* C2: after deleteFolder(id) returns, id, every folder below it and every
\* file in any of them are gone, and no remaining file, folder or share
\* refers to a deleted folder or file id
C2_DeleteFolderLeavesNoOrphans ==
  [][ (res'.op = "deleteFolder" /\ res'.ret # "throws")
      => LET gone == Below(folders, {res'.id})
             goneFiles == {f \in DOMAIN files : files[f].folderId \in gone}
         IN /\ gone \cap DOMAIN folders' = {}
            /\ goneFiles \cap DOMAIN files' = {}
            /\ \A f \in DOMAIN files' : files'[f].folderId \notin gone
            /\ \A f \in DOMAIN folders' : folders'[f].parentId \notin gone
            /\ \A s \in DOMAIN shares' :
                  /\ shares'[s].fileId \notin goneFiles
                  /\ shares'[s].folderId \notin gone ]_vars

\* C6: each counter starts at 1 and only increases, and every create call
\* hands out an id that no stored entity of the type holds, so that no
\* create call replaces a stored record (the seeded demo user included)
C6_CreateNeverReusesAnId ==
  [][ /\ currentUserId' >= currentUserId
      /\ currentFolderId' >= currentFolderId
      /\ currentFileId' >= currentFileId
      /\ currentShareId' >= currentShareId
      /\ res'.op = "createUser" /\ currentUserId' # currentUserId
           => res'.id \notin DOMAIN users
      /\ res'.op = "createFolder" /\ currentFolderId' # currentFolderId
           => res'.id \notin DOMAIN folders
      /\ res'.op = "createFile" /\ currentFileId' # currentFileId
           => res'.id \notin DOMAIN files
      /\ res'.op = "createShare" /\ currentShareId' # currentShareId
           => res'.id \notin DOMAIN shares ]_vars

----------------------------------------------------------------------------
(* SpecRoutes: two registered users, and requests without a session, send  *)
(* requests to the folder, file and share routes, one request at a time;   *)
(* at most MaxRouteItems folders, files and shares are created             *)

InitRoutes == InitAccounting

RouteItems ==
  (currentFolderId - 1) + (currentFileId - 1) + (currentShareId - 1)

\* who sends a request: a registered user; a download is also asked for
\* without a session
Requesters == DOMAIN users
Visitors == {0} \cup DOMAIN users
\* ids a request names: the assigned ones and the next unassigned one
RouteFolderIds == 1..currentFolderId
RouteFileIds == 1..currentFileId
RouteShareIds == 1..currentShareId

RtPostFolder ==
  \E u \in Requesters, parentId \in {Null} \cup RouteFolderIds :
     /\ PostFolderStatus(u, "a", parentId, u) = 201
          => RouteItems < MaxRouteItems
     /\ PostFolder(u, "a", parentId, u)

RtPatchFolder ==
  \E u \in Requesters, id \in RouteFolderIds :
     PatchFolder(u, id, UndefinedT, UndefinedT, "true")

RtDeleteFolder ==
  \E u \in Requesters, id \in RouteFolderIds : DeleteFolderRoute(u, id)

RtUpload ==
  \E u \in Requesters, rawFolderId \in {Undefined} \cup RouteFolderIds :
     /\ UploadStatus(u, TRUE, 1, rawFolderId) = 201
          => RouteItems < MaxRouteItems
     /\ Upload(u, TRUE, "a", 1, rawFolderId)

RtDownload ==
  \E u \in Visitors, id \in RouteFileIds, onDisk \in BOOLEAN :
     Download(u, id, onDisk)

RtMoveFile ==
  \E u \in Requesters, id \in RouteFileIds,
     folderId \in {Null} \cup RouteFolderIds :
     PatchFile(u, id, UndefinedT, folderId, UndefinedT, UndefinedT)

RtTrashFile ==
  \E u \in Requesters, id \in RouteFileIds :
     PatchFile(u, id, UndefinedT, Undefined, UndefinedT, "true")

RtDeleteFile ==
  \E u \in Requesters, id \in RouteFileIds : DeleteFileRoute(u, id)

\* request bodies of POST /api/shares: fileId and folderId
PostShareBodies ==
  {<<f, Undefined>> : f \in RouteFileIds}
    \cup {<<Undefined, d>> : d \in RouteFolderIds}
    \cup {<<Undefined, Undefined>>, <<1, 1>>}

RtPostShare ==
  \E u \in Requesters, body \in PostShareBodies :
     /\ PostShareStatus(u, body[1], body[2]) = 201
          => RouteItems < MaxRouteItems
     /\ PostShare(u, body[1], body[2], UndefinedT, UndefinedT, Undefined,
                  currentShareId)

RtDeleteShare ==
  \E u \in Requesters, id \in RouteShareIds : DeleteShareRoute(u, id)

NextRoutes ==
  \/ RtPostFolder
  \/ RtPatchFolder
  \/ RtDeleteFolder
  \/ RtUpload
  \/ RtDownload
  \/ RtMoveFile
  \/ RtTrashFile
  \/ RtDeleteFile
  \/ RtPostShare
  \/ RtDeleteShare

SpecRoutes == InitRoutes /\ [][NextRoutes]_vars

\* the folder r names belongs to somebody other than the requester
ForeignFolder(r, d) == d \in DOMAIN folders /\ folders[d].userId # r.user

\* the file r names belongs to somebody other than the requester
ForeignFile(r, f) == f \in DOMAIN files /\ files[f].userId # r.user

\* request r, sent with a session, targets a record of another user
TargetsForeign(r) ==
  /\ r.user \in DOMAIN users
  /\ \/ /\ r.op \in {"PATCH /api/folders/:id", "DELETE /api/folders/:id"}
        /\ ForeignFolder(r, r.id)
     \/ /\ r.op \in {"PATCH /api/files/:id", "DELETE /api/files/:id",
                     "GET /api/files/:id/download"}
        /\ ForeignFile(r, r.id)
     \/ /\ r.op \in {"PATCH /api/files/:id", "POST /api/files/upload",
                     "POST /api/folders"}
        /\ ForeignFolder(r, r.arg)
     \/ /\ r.op = "POST /api/shares"
        /\ (ForeignFile(r, r.id) \/ ForeignFolder(r, r.arg))
     \/ /\ r.op = "DELETE /api/shares/:id"
        /\ r.id \in DOMAIN shares
        /\ shares[r.id].userId # r.user

\* C3: a request of user A that targets a file, folder, parent folder or
\* share of another user is answered with an error status and changes no
\* record, no counter and no user's storageUsed
C3_ForeignTargetRejected ==
  [][ TargetsForeign(res') => (res'.status >= 400 /\ UNCHANGED store) ]_vars

\* somebody asked to delete another user's file, was refused, and the file
\* is still there
C3_Witness ==
  /\ res.op = "DELETE /api/files/:id"
  /\ res.status = 403
  /\ res.user \in DOMAIN users
  /\ res.id \in DOMAIN files
  /\ files[res.id].userId # res.user

----------------------------------------------------------------------------
(* SpecFolders: the two users create folders named a and A, with and       *)
(* without userId in the body, trash them and delete them                  *)

InitFolders == InitAccounting

\* request bodies of POST /api/folders: name, and whether userId is sent
PostFolderBodies ==
  {<<"a", TRUE>>, <<"A", TRUE>>, <<"A", FALSE>>}

FoPostFolder ==
  \E u \in DOMAIN users, body \in PostFolderBodies,
     parentId \in {Null} \cup (1..currentFolderId) :
     LET bodyUserId == IF body[2] THEN u ELSE Undefined IN
     /\ PostFolderStatus(u, body[1], parentId, bodyUserId) = 201
          => currentFolderId <= MaxFolderId
     /\ PostFolder(u, body[1], parentId, bodyUserId)

FoPatchFolder ==
  \E u \in DOMAIN users, id \in 1..currentFolderId, inTrash \in {"true", "false"} :
     PatchFolder(u, id, UndefinedT, UndefinedT, inTrash)

FoDeleteFolder ==
  \E u \in DOMAIN users, id \in 1..currentFolderId : DeleteFolderRoute(u, id)

NextFolders ==
  \/ FoPostFolder
  \/ FoPatchFolder
  \/ FoDeleteFolder

SpecFolders == InitFolders /\ [][NextFolders]_vars

\* user u already has a folder under parent p whose name equals name
\* ignoring letter case (p is 0 for the root)
HasSibling(u, name, p) ==
  \E d \in DOMAIN folders :
     /\ folders[d].userId = u
     /\ folders[d].parentId = (IF p = 0 THEN Null ELSE p)
     /\ toLowerCase(folders[d].name) = toLowerCase(name)

\* C4: POST /api/folders for a name the user already has under the same
\* parent, ignoring case, answers 409 and leaves the folder map and the
\* folder id counter unchanged
C4_DuplicateFolderAnswers409 ==
  [][ (/\ res'.op = "POST /api/folders"
       /\ res'.user \in DOMAIN users
       /\ HasSibling(res'.user, res'.name, res'.arg))
      => (/\ res'.status = 409
          /\ folders' = folders
          /\ currentFolderId' = currentFolderId) ]_vars

----------------------------------------------------------------------------
(* SpecQuota: Amy has uploaded QuotaFilesBefore files of 2 GiB; uploads of *)
(* 1 and 2 GiB files and deletions of files follow, one request at a time, *)
(* until MaxQuotaFiles files have been uploaded                            *)

\* the files map after user 1 uploaded n files of MaxUploadSize to the root
FilesBefore(n) ==
  [i \in 1..n |-> NewFile(InsertFile("a", MaxUploadSize, 1, Null), i)]

\* the users map after createFile has accounted for the files 1..n of fs
RECURSIVE UsersAfterCreateFiles(_, _, _)
UsersAfterCreateFiles(us, fs, n) ==
  IF n = 0 THEN us
  ELSE UsersAfterCreateFile(UsersAfterCreateFiles(us, fs, n - 1), fs[n])

InitQuota ==
  /\ now = 0
  /\ files = FilesBefore(QuotaFilesBefore)
  /\ users = UsersAfterCreateFiles(UsersAfterCreates(<<Amy, Bob>>), files,
                                   QuotaFilesBefore)
  /\ currentUserId = 3
  /\ currentFileId = QuotaFilesBefore + 1
  /\ folders = << >>
  /\ shares = << >>
  /\ currentFolderId = 1
  /\ currentShareId = 1
  /\ res = NoRes
  /\ pending = << >>
  /\ ui = << >>

QuUpload ==
  \E u \in DOMAIN users, size \in Sizes :
     /\ UploadStatus(u, TRUE, size, Undefined) = 201
          => currentFileId <= MaxQuotaFiles
     /\ Upload(u, TRUE, "a", size, Undefined)

QuDeleteFile ==
  \E u \in DOMAIN users, id \in 1..currentFileId : DeleteFileRoute(u, id)

NextQuota ==
  \/ QuUpload
  \/ QuDeleteFile

SpecQuota == InitQuota /\ [][NextQuota]_vars

WithinLimit ==
  \A u \in DOMAIN users : users[u].storageUsed <= users[u].storageLimit

\* C5: an upload that would take the user's storageUsed over storageLimit
\* is rejected and changes nothing in the store, an accepted one fits, and
\* so every user's storageUsed stays at most storageLimit
C5_UploadsStayWithinQuota ==
  /\ []WithinLimit
  /\ [][ res'.op = "POST /api/files/upload" /\ res'.user \in DOMAIN users
         => \/ /\ res'.status = 201
               /\ res'.id \in DOMAIN files'
               /\ users[res'.user].storageUsed + files'[res'.id].size
                    <= users[res'.user].storageLimit
            \/ /\ res'.status >= 400
               /\ UNCHANGED store ]_vars

\* an upload was refused to a user whose storageUsed is within 2 GiB of
\* the limit
C5_Witness ==
  /\ res.op = "POST /api/files/upload"
  /\ res.status = 400
  /\ res.user \in DOMAIN users
  /\ users[res.user].storageUsed + MaxUploadSize > users[res.user].storageLimit

----------------------------------------------------------------------------
(* SpecLinks: a user uploads a file, shares it with or without an expiry   *)
(* date, anybody asks for a share by token, and time passes                *)

InitLinks == InitAccounting

LkUpload ==
  \E u \in DOMAIN users :
     /\ currentFileId <= MaxSharedFiles
     /\ Upload(u, TRUE, "a", 1, Undefined)

LkPostShare ==
  \E u \in DOMAIN users, fileId \in DOMAIN files,
     expiryDate \in {Undefined} \cup Times, t \in FreshTokens :
     /\ currentShareId <= MaxShareId
     /\ PostShare(u, fileId, Undefined, UndefinedT, UndefinedT, expiryDate, t)

LkGetShare == \E t \in Tokens : GetShare(t)

LkDeleteShare ==
  \E u \in DOMAIN users, id \in DOMAIN shares : DeleteShareRoute(u, id)

NextLinks ==
  \/ LkUpload
  \/ LkPostShare
  \/ LkGetShare
  \/ LkDeleteShare
  \/ Tick

SpecLinks == InitLinks /\ [][NextLinks]_vars

\* the shares that hold token t
Holding(t) == {s \in DOMAIN shares : shares[s].token = t}

\* C9: GET /api/shares/:token answers 404 when no share holds the token,
\* 403 when the share's expiryDate is earlier than the current time, and
\* the share itself only when expiryDate is unset or has not passed
C9_ShareRouteRefusesExpired ==
  [][ (res'.op = "GET /api/shares/:token" /\ now' = now)
      => LET held == Holding(res'.tok)
         IN IF held = {} THEN res'.status = 404
            ELSE \E s \in held :
                   IF shares[s].expiryDate \notin {Null, Undefined}
                      /\ shares[s].expiryDate < now
                   THEN res'.status = 403 /\ res'.id = 0
                   ELSE res'.status = 200 /\ res'.id = s ]_vars

\* a share whose expiry date has passed was asked for and refused
C9_Witness ==
  /\ res.op = "GET /api/shares/:token"
  /\ res.status = 403
  /\ \E s \in Holding(res.tok) :
        TruthyD(shares[s].expiryDate) /\ shares[s].expiryDate < now

----------------------------------------------------------------------------
(* Shares made through POST /api/shares (SpecRoutes) *)

\* every stored share names a file or a folder, and not both
ExactlyOneTarget ==
  \A s \in DOMAIN shares :
     TruthyN(shares[s].fileId) # TruthyN(shares[s].folderId)

\* C11: every share stored through POST /api/shares has exactly one of
\* fileId and folderId set, and a request that names both or neither is
\* answered 400 and creates no share
C11_ShareHasExactlyOneTarget ==
  /\ []ExactlyOneTarget
  /\ [][ (/\ res'.op = "POST /api/shares"
          /\ res'.user \in DOMAIN users
          /\ (res'.id = 0) = (res'.arg = 0))
         => (/\ res'.status = 400
             /\ shares' = shares
             /\ currentShareId' = currentShareId) ]_vars

\* a share is stored, and a request naming both a file and a folder was
\* answered 400
C11_Witness ==
  /\ shares # << >>
  /\ res.op = "POST /api/shares"
  /\ res.status = 400
  /\ res.id # 0
  /\ res.arg # 0

----------------------------------------------------------------------------
(* The folder tree the folder routes build (SpecFolders) *)

\* folder d is below itself in the folder map
OnCycle(d) ==
  d \in Below(folders, {f \in DOMAIN folders : folders[f].parentId = d})

\* C12: through POST, PATCH and DELETE /api/folders every folder's parentId
\* is null or the id of a stored folder of the same user, and no folder is
\* below itself
C12_FoldersFormForest ==
  \A d \in DOMAIN folders :
     /\ folders[d].parentId # Null
          => /\ folders[d].parentId \in DOMAIN folders
             /\ folders[folders[d].parentId].userId = folders[d].userId
     /\ ~OnCycle(d)

\* a folder is stored under a parent, and a POST under a missing parent or
\* under another user's folder was refused
C12_Witness ==
  /\ \E d \in DOMAIN folders : folders[d].parentId # Null
  /\ res.op = "POST /api/folders"
  /\ res.status \in {403, 404}

----------------------------------------------------------------------------
(* deleteFolder on the stores MemStorage's own methods build (Spec) *)

\* C13: deleteFolder(id) returns, whatever createFolder, updateFolder,
\* createFile and deleteFolder calls came before it
C13_DeleteFolderReturns ==
  [][ res'.op = "deleteFolder" => res'.ret # "throws" ]_vars

----------------------------------------------------------------------------
(* SpecClamp: files are created, resized and deleted, alone and with their *)
(* folder, while updateUserStorageUsed is called with deltas of either     *)
(* sign                                                                    *)

Deltas == (0 - MaxUploadSize)..MaxUploadSize

ClCreateFolder ==
  /\ currentFolderId <= MaxClampFiles
  /\ createFolder(InsertFolder("a", 1, Null))

ClCreateFile ==
  \E sz \in Sizes, u \in DOMAIN users, d \in {Null} \cup DOMAIN folders :
     /\ currentFileId <= MaxClampFiles
     /\ createFile(InsertFile("a", sz, u, d))

ClUpdateFile ==
  \E id \in DOMAIN files, sz \in Sizes : updateFile(id, [size |-> sz])

ClDeleteFile == \E id \in DOMAIN files : deleteFile(id)

ClDeleteFolder == \E id \in DOMAIN folders : deleteFolder(id)

ClUpdateUserStorageUsed ==
  \E u \in DOMAIN users, sizeDelta \in Deltas :
     /\ users[u].storageUsed + sizeDelta <= MaxDrift
     /\ updateUserStorageUsed(u, sizeDelta)

NextClamp ==
  \/ ClCreateFolder
  \/ ClCreateFile
  \/ ClUpdateFile
  \/ ClDeleteFile
  \/ ClDeleteFolder
  \/ ClUpdateUserStorageUsed

SpecClamp == InitAccounting /\ [][NextClamp]_vars

\* C14: no user's storageUsed is ever negative, whatever createFile,
\* updateFile, deleteFile, deleteFolder and updateUserStorageUsed calls
\* (with deltas of either sign) were made
C14_StorageUsedNeverNegative ==
  \A u \in DOMAIN users : users[u].storageUsed >= 0

\* a call of updateUserStorageUsed left a user who still holds a file at 0
C14_Witness ==
  /\ res.op = "updateUserStorageUsed"
  /\ res.id \in DOMAIN users
  /\ users[res.id].storageUsed = 0
  /\ StoredBytes(res.id) > 0

----------------------------------------------------------------------------
(* storageUsed and the trash (SpecRoutes) *)

\* the bytes of u's stored files that are not in trash
UntrashedBytes(u) ==
  SumOver({f \in DOMAIN files :
             files[f].userId = u /\ files[f].inTrash # "true"}, files)

\* the bytes of u's stored files that are in trash
TrashedBytes(u) ==
  SumOver({f \in DOMAIN files :
             files[f].userId = u /\ files[f].inTrash = "true"}, files)

\* C15 as stated: every user's storageUsed equals the sum of the sizes of
\* that user's files that are not in trash
C15_StorageUsedIsUntrashedBytes ==
  \A u \in DOMAIN users : users[u].storageUsed = UntrashedBytes(u)

\* C15, amended: through the upload, PATCH and DELETE routes every user's
\* storageUsed equals the sum of the sizes of all of that user's stored
\* files, in trash or not; moving a file to trash frees nothing
C15_StorageUsedCountsTrash ==
  \A u \in DOMAIN users :
     users[u].storageUsed = UntrashedBytes(u) + TrashedBytes(u)

\* a PATCH moved a file to trash and its bytes still count for its owner
C15_Witness ==
  /\ res.op = "PATCH /api/files/:id"
  /\ res.status = 200
  /\ res.id \in DOMAIN files
  /\ files[res.id].inTrash = "true"
  /\ users[files[res.id].userId].storageUsed >= files[res.id].size
  /\ UntrashedBytes(files[res.id].userId) < users[files[res.id].userId].storageUsed

----------------------------------------------------------------------------
(* What deleteFile changes, as DELETE /api/files/:id calls it (SpecRoutes) *)

\* every share with a fileId refers to a stored file
FileSharesResolve ==
  \A s \in DOMAIN shares :
     TruthyN(shares[s].fileId) => shares[s].fileId \in DOMAIN files

----------------------------------------------------------------------------
(* SpecTrash: user 1 uploads files and creates folders, both users send    *)
(* PATCH requests that set, clear or leave out inTrash, and time passes    *)

TrUpload ==
  /\ currentFileId <= MaxTrashItems
  /\ Upload(1, TRUE, "a", 1, Undefined)

TrPostFolder ==
  /\ currentFolderId <= MaxTrashItems
  /\ PostFolder(1, "a", Null, 1)

TrPatchFile ==
  \E u \in DOMAIN users, id \in DOMAIN files,
     inTrash \in {UndefinedT, "true", "false"} :
     PatchFile(u, id, UndefinedT, Undefined, UndefinedT, inTrash)

TrPatchFolder ==
  \E u \in DOMAIN users, id \in DOMAIN folders,
     inTrash \in {UndefinedT, "true", "false"} :
     PatchFolder(u, id, UndefinedT, UndefinedT, inTrash)

NextTrash ==
  \/ TrUpload
  \/ TrPostFolder
  \/ TrPatchFile
  \/ TrPatchFolder
  \/ Tick

SpecTrash == InitAccounting /\ [][NextTrash]_vars

\* record r carries a deletion time exactly when it is in trash
TrashStamped(r) == (r.deletedAt \notin {Null, Undefined}) <=> (r.inTrash = "true")

\* record r, whose trash flag has just changed, carries t as deletedAt when
\* the flag is true and null otherwise
StampFollows(r, t) ==
  r.deletedAt = (IF r.inTrash = "true" THEN t ELSE Null)

\* C17: a PATCH that changes inTrash to true sets deletedAt to the current
\* time and one that changes it to false sets deletedAt to null, so a file
\* or folder has a deletedAt exactly when its inTrash flag is true; a PATCH
\* removes no record
C17_TrashFlagAndDeletedAt ==
  /\ [](/\ \A f \in DOMAIN files : TrashStamped(files[f])
        /\ \A d \in DOMAIN folders : TrashStamped(folders[d]))
  /\ [][ /\ \A f \in DOMAIN files \cap DOMAIN files' :
              files'[f].inTrash # files[f].inTrash
                => StampFollows(files'[f], now)
         /\ \A d \in DOMAIN folders \cap DOMAIN folders' :
              folders'[d].inTrash # folders[d].inTrash
                => StampFollows(folders'[d], now)
         /\ (/\ res'.op \in {"PATCH /api/files/:id", "PATCH /api/folders/:id"}
             /\ now' = now)
            => /\ DOMAIN files' = DOMAIN files
               /\ DOMAIN folders' = DOMAIN folders
               /\ shares' = shares
               /\ users' = users ]_vars

\* a file was moved to trash after the clock had advanced and carries that
\* time, and a folder was restored and carries null
C17_Witness ==
  /\ \E f \in DOMAIN files :
        files[f].inTrash = "true" /\ files[f].deletedAt = MaxTime
  /\ \E d \in DOMAIN folders :
        folders[d].inTrash = "false" /\ folders[d].deletedAt = Null

----------------------------------------------------------------------------
(* SpecUpdates: updateFile and updateFolder are called with several field  *)
(* sets, on stored and on unassigned ids, while time passes; at most       *)
(* MaxUpdateItems files and folders are created                            *)

\* the Partial<File> and Partial<Folder> values the calls are given
FileDatas ==
  {[name |-> "b"], [size |-> MaxUploadSize, starred |-> "true"],
   [modifiedAt |-> 0]}

FolderDatas ==
  {[name |-> "b"], [starred |-> "true", parentId |-> Null],
   [modifiedAt |-> 0]}

\* the files and folders created so far
UpdateItems == (currentFileId - 1) + (currentFolderId - 1)

UpCreateFile ==
  /\ UpdateItems < MaxUpdateItems
  /\ createFile(InsertFile("a", 1, 1, Null))

UpCreateFolder ==
  /\ UpdateItems < MaxUpdateItems
  /\ createFolder(InsertFolder("a", 1, Null))

UpUpdateFile ==
  \E id \in 1..currentFileId, data \in FileDatas : updateFile(id, data)

UpUpdateFolder ==
  \E id \in 1..currentFolderId, data \in FolderDatas : updateFolder(id, data)

NextUpdates ==
  \/ UpCreateFile
  \/ UpCreateFolder
  \/ UpUpdateFile
  \/ UpUpdateFolder
  \/ Tick

SpecUpdates == InitAccounting /\ [][NextUpdates]_vars

\* record r with the fields of data laid over it
Overlaid(r, data) ==
  [k \in DOMAIN r \cup DOMAIN data |->
      IF k \in DOMAIN data THEN data[k] ELSE r[k]]

\* record r with the fields of data laid over it and modifiedAt set to t
OverlaidAndStamped(r, data, t) ==
  [k \in DOMAIN r \cup DOMAIN data \cup {"modifiedAt"} |->
      IF k = "modifiedAt" THEN t
      ELSE IF k \in DOMAIN data THEN data[k] ELSE r[k]]

\* the step is a call update(id, data) on map m: on a stored id it returns
\* a record and stores expected at id, leaving every other entry alone; on
\* any other id it returns undefined and leaves the store alone
UpdateStep(m, mNext, expected) ==
  IF res'.id \in DOMAIN m
  THEN /\ res'.ret = "record"
       /\ DOMAIN mNext = DOMAIN m
       /\ mNext[res'.id] = expected
       /\ \A x \in DOMAIN m \ {res'.id} : mNext[x] = m[x]
  ELSE /\ res'.ret = "undefined"
       /\ UNCHANGED store

\* C18 as stated: updateFile and updateFolder both store the previous record
\* with the fields of data replaced and modifiedAt set to the time of the
\* call; on an id that is not stored they return undefined and change nothing
C18_UpdatesMergeAndStamp ==
  [][ /\ (res'.op = "updateFile" /\ now' = now)
           => UpdateStep(files, files',
                         OverlaidAndStamped(files[res'.id], res'.data, now))
      /\ (res'.op = "updateFolder" /\ now' = now)
           => UpdateStep(folders, folders',
                         OverlaidAndStamped(folders[res'.id], res'.data, now))
    ]_vars

\* C18, amended: updateFile stores the previous record with the fields of
\* data replaced and modifiedAt set to the time of the call; updateFolder
\* stores the previous record with the fields of data replaced and stamps
\* nothing; on an id that is not stored both return undefined and change
\* nothing
C18_UpdateFileStampsFolderDoesNot ==
  [][ /\ (res'.op = "updateFile" /\ now' = now)
           => UpdateStep(files, files',
                         OverlaidAndStamped(files[res'.id], res'.data, now))
      /\ (res'.op = "updateFolder" /\ now' = now)
           => UpdateStep(folders, folders',
                         Overlaid(folders[res'.id], res'.data))
    ]_vars

\* a folder was renamed after the clock had advanced and carries no
\* modification time, while a file updated at that time carries it
C18_Witness ==
  /\ res.op = "updateFolder"
  /\ res.ret = "record"
  /\ now = MaxTime
  /\ folders[res.id].name = "b"
  /\ folders[res.id].modifiedAt = Undefined
  /\ \E f \in DOMAIN files : files[f].modifiedAt = MaxTime

----------------------------------------------------------------------------
(* What the delete methods return (Spec) *)

\* the call recorded in r returned true if its id was in map m and false
\* if it was not
ReturnsWhetherStored(r, m) ==
  r.ret = (IF r.id \in DOMAIN m THEN "true" ELSE "false")

\* C19: deleteFile, deleteFolder and deleteShare return true exactly when
\* the id was stored when the call was made, and false otherwise
C19_DeleteReturnsWhetherStored ==
  [][ /\ res'.op = "deleteFile" => ReturnsWhetherStored(res', files)
      /\ res'.op = "deleteFolder" => ReturnsWhetherStored(res', folders)
      /\ res'.op = "deleteShare" => ReturnsWhetherStored(res', shares) ]_vars

----------------------------------------------------------------------------
(* SpecRecent: the store holds MaxRecentFiles files of the two users, some *)
(* of them accessed at some earlier time and some in trash; getRecentFiles *)
(* is called for either user, and time passes                              *)

\* the file createFile stored at id for owner, later given lastAccessedAt
\* la and trash flag tr by updateFile
RecentFileRecord(id, owner, la, tr) ==
  [NewFile(InsertFile("a", 1, owner, Null), id) EXCEPT
     !.lastAccessedAt = la,
     !.inTrash = tr,
     !.deletedAt = IF tr = "true" THEN now ELSE Undefined]

InitRecent ==
  /\ now \in 0..MaxRecentTime
  /\ \E owner \in [1..MaxRecentFiles -> {1, 2}],
        la \in [1..MaxRecentFiles -> {Undefined} \cup (0..now)],
        tr \in [1..MaxRecentFiles -> {UndefinedT, "true"}] :
        files = [i \in 1..MaxRecentFiles |->
                   RecentFileRecord(i, owner[i], la[i], tr[i])]
  /\ users = UsersAfterCreateFiles(UsersAfterCreates(<<Amy, Bob>>), files,
                                   MaxRecentFiles)
  /\ currentUserId = 3
  /\ currentFileId = MaxRecentFiles + 1
  /\ folders = << >>
  /\ shares = << >>
  /\ currentFolderId = 1
  /\ currentShareId = 1
  /\ res = NoRes
  /\ pending = << >>
  /\ ui = << >>

\* a call of getRecentFiles(u); res.data holds the ids of the files it
\* returned, in the order returned
RcGetRecentFiles ==
  \E u \in DOMAIN users :
     LET list == getRecentFiles(u)
     IN /\ res' = [Result("getRecentFiles", u, 0, 0, "list")
                     EXCEPT !.data = [i \in 1..Len(list) |-> list[i].id]]
        /\ UNCHANGED <<store, now, pending, ui>>

RcPass ==
  /\ now < MaxRecentTime
  /\ now' = now + 1
  /\ UNCHANGED <<store, res, pending, ui>>

NextRecent ==
  \/ RcGetRecentFiles
  \/ RcPass

SpecRecent == InitRecent /\ [][NextRecent]_vars

\* the files getRecentFiles(u) has to return: u's, not in trash, accessed,
\* and accessed no longer than 30 days ago
RecentOf(u) ==
  {f \in DOMAIN files :
     /\ files[f].userId = u
     /\ files[f].inTrash # "true"
     /\ files[f].lastAccessedAt \notin {Null, Undefined}
     /\ now - files[f].lastAccessedAt <= ThirtyDays}

\* C20: getRecentFiles(U) returns exactly U's files that are not in trash
\* and were accessed no longer than 30 days before the call, each once,
\* and none before a file accessed later than it
C20_RecentFilesNewestFirst ==
  [][ (res'.op = "getRecentFiles" /\ now' = now)
      => LET ids == res'.data
         IN /\ {ids[i] : i \in 1..Len(ids)} = RecentOf(res'.user)
            /\ Len(ids) = Cardinality(RecentOf(res'.user))
            /\ \A i, j \in 1..Len(ids) :
                  i < j => files[ids[i]].lastAccessedAt
                             >= files[ids[j]].lastAccessedAt ]_vars

\* a call returned two files, and the one stored second, accessed later
\* than the other, came first
C20_Witness ==
  /\ res.op = "getRecentFiles"
  /\ Len(res.data) = 2
  /\ files[res.data[1]].lastAccessedAt > files[res.data[2]].lastAccessedAt
  /\ res.data[1] > res.data[2]

----------------------------------------------------------------------------
(* SpecSharedView: two users create files, the first also folders; they    *)
(* set and clear the items' inTrash and isShared flags, create shares on   *)
(* any stored file and on their own folders, and delete shares and files;  *)
(* at most MaxSharedViewItems items and MaxSharedViewShares shares are     *)
(* created                                                                 *)

SharedFlagUpdates ==
  { [inTrash |-> "true"], [inTrash |-> "false"],
    [isShared |-> "true"], [isShared |-> "false"] }

SvCreateFile ==
  \E u \in DOMAIN users :
     /\ (currentFileId - 1) + (currentFolderId - 1) < MaxSharedViewItems
     /\ createFile(InsertFile("a", 1, u, Null))

SvCreateFolder ==
  /\ (currentFileId - 1) + (currentFolderId - 1) < MaxSharedViewItems
  /\ createFolder(InsertFolder("a", 1, Null))

SvUpdateFile ==
  \E id \in DOMAIN files, data \in SharedFlagUpdates : updateFile(id, data)

SvUpdateFolder ==
  \E id \in DOMAIN folders, data \in SharedFlagUpdates : updateFolder(id, data)

SvShareFile ==
  \E f \in DOMAIN files, u \in DOMAIN users :
     /\ currentShareId <= MaxSharedViewShares
     /\ createShare(InsertShare(f, Undefined, u, "public", "true", Undefined),
                    currentShareId)

SvShareFolder ==
  \E d \in DOMAIN folders :
     /\ currentShareId <= MaxSharedViewShares
     /\ createShare(InsertShare(Undefined, d, folders[d].userId, "public",
                                "true", Undefined),
                    currentShareId)

SvDeleteShare == \E id \in DOMAIN shares : deleteShare(id)

SvDeleteFile == \E id \in DOMAIN files : deleteFile(id)

NextSharedView ==
  \/ SvCreateFile
  \/ SvCreateFolder
  \/ SvUpdateFile
  \/ SvUpdateFolder
  \/ SvShareFile
  \/ SvShareFolder
  \/ SvDeleteShare
  \/ SvDeleteFile

SpecSharedView == InitAccounting /\ [][NextSharedView]_vars

\* the shares user u holds on file f, and on folder d
FileSharesOf(u, f, sh) ==
  {s \in DOMAIN sh : sh[s].userId = u /\ sh[s].fileId = f}
FolderSharesOf(u, d, sh) ==
  {s \in DOMAIN sh : sh[s].userId = u /\ sh[s].folderId = d}

\* C21: getSharedFiles(U) and getSharedFolders(U) list, each once, exactly
\* U's items that are not in the trash and are the target of a stored share
\* of U or have isShared set; an item of U outside the trash is listed right
\* after U creates a share on it, and after a deleteShare call it is listed
\* only if another share of U on it remains or its isShared flag is set
C21_SharedViews ==
  /\ [](\A u \in DOMAIN users :
          /\ ViewIds(getSharedFiles(u)) =
               {f \in DOMAIN files :
                  /\ files[f].userId = u
                  /\ files[f].inTrash # "true"
                  /\ \/ FileSharesOf(u, f, shares) # {}
                     \/ files[f].isShared = "true"}
          /\ ViewIds(getSharedFolders(u)) =
               {d \in DOMAIN folders :
                  /\ folders[d].userId = u
                  /\ folders[d].inTrash # "true"
                  /\ \/ FolderSharesOf(u, d, shares) # {}
                     \/ folders[d].isShared = "true"}
          /\ NoRepeats(getSharedFiles(u))
          /\ NoRepeats(getSharedFolders(u)))
  /\ [][\A u \in DOMAIN users :
          /\ \A f \in DOMAIN files :
                /\ (/\ res'.op = "createShare"
                    /\ shares'[res'.id].userId = u
                    /\ shares'[res'.id].fileId = f
                    /\ files[f].userId = u
                    /\ files[f].inTrash # "true")
                     => f \in ViewIds(getSharedFiles(u))'
                /\ (/\ res'.op = "deleteShare"
                    /\ res'.id \in DOMAIN shares
                    /\ shares[res'.id].userId = u
                    /\ shares[res'.id].fileId = f
                    /\ f \in ViewIds(getSharedFiles(u)))
                     => (f \in ViewIds(getSharedFiles(u))'
                           <=> \/ FileSharesOf(u, f, shares') # {}
                               \/ files[f].isShared = "true")
          /\ \A d \in DOMAIN folders :
                /\ (/\ res'.op = "createShare"
                    /\ shares'[res'.id].userId = u
                    /\ shares'[res'.id].folderId = d
                    /\ folders[d].userId = u
                    /\ folders[d].inTrash # "true")
                     => d \in ViewIds(getSharedFolders(u))'
                /\ (/\ res'.op = "deleteShare"
                    /\ res'.id \in DOMAIN shares
                    /\ shares[res'.id].userId = u
                    /\ shares[res'.id].folderId = d
                    /\ d \in ViewIds(getSharedFolders(u)))
                     => (d \in ViewIds(getSharedFolders(u))'
                           <=> \/ FolderSharesOf(u, d, shares') # {}
                               \/ folders[d].isShared = "true")
     ]_vars

\* C21 witness: the last share a user held on a file of theirs has just been
\* deleted and the file, whose isShared flag is not set, is no longer listed,
\* while a share another user created on it is still stored
C21_Witness ==
  /\ res.op = "deleteShare"
  /\ \E f \in DOMAIN files :
        LET u == files[f].userId
        IN /\ files[f].inTrash # "true"
           /\ files[f].isShared # "true"
           /\ FileSharesOf(u, f, shares) = {}
           /\ f \notin ViewIds(getSharedFiles(u))
           /\ \E s \in DOMAIN shares :
                 shares[s].fileId = f /\ shares[s].userId # u
           /\ currentShareId = 3

----------------------------------------------------------------------------
(* SpecStats: a user creates folders, at the root and inside stored        *)
(* folders, stars and share-flags them and moves them to trash, and        *)
(* creates files of one or two units in them; at most MaxStatsFolders      *)
(* folders and MaxStatsFiles files are created                             *)

StatsFlagUpdates ==
  { [starred |-> "true", isShared |-> "true"], [inTrash |-> "true"] }

SsCreateFolder ==
  \E p \in {Null} \cup DOMAIN folders :
     /\ currentFolderId <= MaxStatsFolders
     /\ createFolder(InsertFolder("a", 1, p))

SsCreateFile ==
  \E sz \in Sizes, d \in DOMAIN folders :
     /\ currentFileId <= MaxStatsFiles
     /\ createFile(InsertFile("a", sz, 1, d))

SsUpdateFolder ==
  \E id \in DOMAIN folders, data \in StatsFlagUpdates : updateFolder(id, data)

NextStats ==
  \/ SsCreateFolder
  \/ SsCreateFile
  \/ SsUpdateFolder

SpecStats == InitAccounting /\ [][NextStats]_vars

\* the files directly in folder d, and the sum of their sizes taken file by
\* file in id order
DirectFiles(d) == {f \in DOMAIN files : files[f].folderId = d}

RECURSIVE DirectBytes(_, _)
DirectBytes(d, n) ==
  IF n = 0 THEN 0
  ELSE DirectBytes(d, n - 1)
         + (IF n \in DirectFiles(d) THEN files[n].size ELSE 0)

HasDirectStats(view) ==
  \A i \in 1..Len(view) :
     /\ view[i].fileCount = Cardinality(DirectFiles(view[i].id))
     /\ view[i].totalSize = DirectBytes(view[i].id, currentFileId - 1)

\* C22: every folder that getFoldersByUserId, getStarredFolders,
\* getSharedFolders or getTrashedFolders returns carries as fileCount the
\* number of files whose folderId is the folder's id and as totalSize the
\* sum of the sizes of those files; files of subfolders are not counted
C22_FolderStatsCountDirectFiles ==
  \A u \in DOMAIN users :
     /\ \A p \in {Undefined} \cup DOMAIN folders :
           HasDirectStats(getFoldersByUserId(u, p))
     /\ HasDirectStats(getStarredFolders(u))
     /\ HasDirectStats(getSharedFolders(u))
     /\ HasDirectStats(getTrashedFolders(u))

\* C22 witness: a listed folder holds one file of two units and a subfolder
\* that holds another file, and its statistics show the one file only
C22_Witness ==
  \E u \in DOMAIN users :
     LET view == getFoldersByUserId(u, Undefined)
     IN \E i \in 1..Len(view), d \in DOMAIN folders :
           /\ folders[d].parentId = view[i].id
           /\ DirectFiles(d) # {}
           /\ view[i].fileCount = 1
           /\ view[i].totalSize = 2
           /\ \E j \in 1..Len(getSharedFolders(u)) :
                 getSharedFolders(u)[j].id = view[i].id

----------------------------------------------------------------------------
(* SpecIsolation: two registered users send requests, one at a time, that  *)
(* name their own and each other's records: they create root folders,      *)
(* upload into any stored folder, star and trash files, share files, and   *)
(* delete files, folders and shares; at most MaxIsolationItems folders,    *)
(* files and shares are created                                            *)

IsolationItems ==
  (currentFolderId - 1) + (currentFileId - 1) + (currentShareId - 1)

IsPostFolder ==
  \E u \in DOMAIN users :
     /\ PostFolderStatus(u, "a", Null, u) = 201
          => IsolationItems < MaxIsolationItems
     /\ PostFolder(u, "a", Null, u)

IsUpload ==
  \E u \in DOMAIN users, rawFolderId \in {Undefined} \cup DOMAIN folders :
     /\ UploadStatus(u, TRUE, 1, rawFolderId) = 201
          => IsolationItems < MaxIsolationItems
     /\ Upload(u, TRUE, "a", 1, rawFolderId)

IsStarFile ==
  \E u \in DOMAIN users, id \in DOMAIN files :
     PatchFile(u, id, UndefinedT, Undefined, "true", UndefinedT)

IsTrashFile ==
  \E u \in DOMAIN users, id \in DOMAIN files :
     PatchFile(u, id, UndefinedT, Undefined, UndefinedT, "true")

IsDeleteFile ==
  \E u \in DOMAIN users, id \in DOMAIN files : DeleteFileRoute(u, id)

IsDeleteFolder ==
  \E u \in DOMAIN users, id \in DOMAIN folders : DeleteFolderRoute(u, id)

IsPostShare ==
  \E u \in DOMAIN users, f \in DOMAIN files :
     /\ PostShareStatus(u, f, Undefined) = 201
          => IsolationItems < MaxIsolationItems
     /\ PostShare(u, f, Undefined, UndefinedT, UndefinedT, Undefined,
                  currentShareId)

IsDeleteShare ==
  \E u \in DOMAIN users, id \in DOMAIN shares : DeleteShareRoute(u, id)

NextIsolation ==
  \/ IsPostFolder
  \/ IsUpload
  \/ IsStarFile
  \/ IsTrashFile
  \/ IsDeleteFile
  \/ IsDeleteFolder
  \/ IsPostShare
  \/ IsDeleteShare

SpecIsolation == InitAccounting /\ [][NextIsolation]_vars

\* every listing and view the store offers, called for user u
ViewsOf(u) ==
  << [d \in {Undefined} \cup (1..MaxIsolationItems) |->
        getFilesByUserId(u, d)],
     [d \in {Undefined} \cup (1..MaxIsolationItems) |->
        getFoldersByUserId(u, d)],
     getRecentFiles(u), getStarredFiles(u), getSharedFiles(u),
     getTrashedFiles(u), getStarredFolders(u), getSharedFolders(u),
     getTrashedFolders(u), getSharesByUserId(u) >>

OnlyRecordsOf(u, view) == \A i \in 1..Len(view) : view[i].userId = u

----------------------------------------------------------------------------
(* The PATCH handlers step by step.  A handler runs from one await to the  *)
(* next without interruption; the store call it awaits reads or writes the *)
(* maps at the moment of the call, and the handler resumes in a later      *)
(* step, so that the steps of two requests can interleave.  pending[r] is  *)
(* request r: its route, user, target id and body, pc the call it awaits,  *)
(* rec the record getFile or getFolder gave it, dir the folder it looked   *)
(* up, over the record stored when its update call ran, ret what the       *)
(* update call returned, nth the position of that call among all update    *)
(* calls, status its answer (0: none yet)                                  *)

Suspended(route, u, id, name, folderId, starred, inTrash, pc, rec) ==
  [route |-> route, user |-> u, id |-> id, name |-> name,
   folderId |-> folderId, starred |-> starred, inTrash |-> inTrash,
   pc |-> pc, rec |-> rec, dir |-> << >>, over |-> << >>, ret |-> << >>,
   nth |-> 0, status |-> 0]

\* the update calls made so far
UpdateCalls == Cardinality({r \in DOMAIN pending : pending[r].nth > 0})

\* a handler that compares the record it read with the record its update
\* call replaced, and reports a conflict when they differ
AfterUpdateStatus_ReportsConflict(p) == IF p.over # p.rec THEN 409 ELSE 200

\* res.json(updatedFile), res.json(updatedFolder)
AfterUpdateStatus(p) == 200

\* the handler answers and is finished
Answer(r, status) ==
  /\ pending' = [pending EXCEPT ![r] = Merge(@, [pc |-> "done",
                                                  status |-> status])]
  /\ res' = Respond(pending[r].route, pending[r].user, pending[r].id, 0,
                    status)
  /\ UNCHANGED <<store, now, ui>>

\* PATCH /api/files/:id up to `await storage.getFile(fileId)`
PatchFileStart(r, u, id, name, folderId, starred, inTrash) ==
  /\ r \notin DOMAIN pending
  /\ isAuthenticated(u)
  /\ pending' = With(pending, r,
                     Suspended("PATCH /api/files/:id", u, id, name, folderId,
                               starred, inTrash, "getFile", getFile(id)))
  /\ UNCHANGED <<store, now, res, ui>>

\* ... the call of storage.updateFile with the data built from the record
\* read at the start
PatchFileUpdate(r) ==
  LET p == pending[r]
      data == PatchFileData(p.rec[1], p.name, p.folderId, p.starred,
                            p.inTrash)
  IN /\ storage_updateFile(p.id, data)
     /\ pending' = [pending EXCEPT
                      ![r] = Merge(@, [pc |-> "updateFile",
                                       over |-> getFile(p.id),
                                       ret |-> IF p.id \in DOMAIN files
                                               THEN <<files'[p.id]>>
                                               ELSE << >>,
                                       nth |-> UpdateCalls + 1])]
     /\ UNCHANGED <<now, res, ui>>

\* ... from one await to the next
PatchFileResume(r) ==
  /\ r \in DOMAIN pending
  /\ pending[r].route = "PATCH /api/files/:id"
  /\ LET p == pending[r]
     IN CASE p.pc = "getFile" ->
               IF p.rec = << >> THEN Answer(r, 404)
               ELSE IF p.rec[1].userId # p.user THEN Answer(r, 403)
               ELSE IF /\ p.folderId # Undefined
                       /\ p.folderId # p.rec[1].folderId
                       /\ p.folderId # Null
                    THEN /\ pending' =
                              [pending EXCEPT
                                 ![r] = Merge(@, [pc |-> "getFolder",
                                                  dir |-> getFolder(p.folderId)])]
                         /\ UNCHANGED <<store, now, res, ui>>
               ELSE PatchFileUpdate(r)
          [] p.pc = "getFolder" ->
               IF p.dir = << >> \/ p.dir[1].userId # p.user
               THEN Answer(r, 400)
               ELSE PatchFileUpdate(r)
          [] p.pc = "updateFile" -> Answer(r, AfterUpdateStatus(p))
          [] OTHER -> FALSE

\* PATCH /api/folders/:id up to `await storage.getFolder(folderId)`
PatchFolderStart(r, u, id, name, starred, inTrash) ==
  /\ r \notin DOMAIN pending
  /\ isAuthenticated(u)
  /\ pending' = With(pending, r,
                     Suspended("PATCH /api/folders/:id", u, id, name,
                               Undefined, starred, inTrash, "getFolder",
                               getFolder(id)))
  /\ UNCHANGED <<store, now, res, ui>>

\* ... from one await to the next
PatchFolderResume(r) ==
  /\ r \in DOMAIN pending
  /\ pending[r].route = "PATCH /api/folders/:id"
  /\ LET p == pending[r]
     IN CASE p.pc = "getFolder" ->
               IF p.rec = << >> THEN Answer(r, 404)
               ELSE IF p.rec[1].userId # p.user THEN Answer(r, 403)
               ELSE /\ storage_updateFolder(
                         p.id, PatchFolderData(p.rec[1], p.name, p.starred,
                                               p.inTrash))
                    /\ pending' =
                         [pending EXCEPT
                            ![r] = Merge(@, [pc |-> "updateFolder",
                                             over |-> getFolder(p.id),
                                             ret |-> IF p.id \in DOMAIN folders
                                                     THEN <<folders'[p.id]>>
                                                     ELSE << >>,
                                             nth |-> UpdateCalls + 1])]
                    /\ UNCHANGED <<now, res, ui>>
          [] p.pc = "updateFolder" -> Answer(r, AfterUpdateStatus(p))
          [] OTHER -> FALSE

----------------------------------------------------------------------------
(* SpecRace: the owner of a stored file and a stored folder sends up to    *)
(* MaxPending PATCH requests for them (rename, star, move, trash) whose    *)
(* handlers interleave at their awaits while time passes                   *)

InitRace ==
  /\ now = 0
  /\ users = UsersAfterCreateFile(UsersAfterCreates(<<Amy, Bob>>),
                                  InsertFile("a", 1, 1, Null))
  /\ currentUserId = 3
  /\ folders = (1 :> NewFolder(InsertFolder("a", 1, Null), 1))
  /\ files = (1 :> NewFile(InsertFile("a", 1, 1, Null), 1))
  /\ shares = << >>
  /\ currentFolderId = 2
  /\ currentFileId = 2
  /\ currentShareId = 1
  /\ res = NoRes
  /\ pending = << >>
  /\ ui = << >>

\* request bodies: name, folderId, starred, inTrash
RaceFileBodies ==
  { <<"b", Undefined, UndefinedT, UndefinedT>>,
    <<UndefinedT, Undefined, "true", UndefinedT>>,
    <<UndefinedT, 1, UndefinedT, UndefinedT>>,
    <<UndefinedT, Undefined, UndefinedT, "true">> }

\* request bodies: name, starred, inTrash
RaceFolderBodies ==
  { <<"b", UndefinedT, UndefinedT>>,
    <<UndefinedT, "true", "true">> }

RaPatchFile ==
  \E b \in RaceFileBodies :
     /\ Cardinality(DOMAIN pending) < MaxPending
     /\ PatchFileStart(Cardinality(DOMAIN pending) + 1, 1, 1,
                       b[1], b[2], b[3], b[4])

RaPatchFolder ==
  \E b \in RaceFolderBodies :
     /\ Cardinality(DOMAIN pending) < MaxPending
     /\ PatchFolderStart(Cardinality(DOMAIN pending) + 1, 1, 1,
                         b[1], b[2], b[3])

RaResumeFile == \E r \in DOMAIN pending : PatchFileResume(r)

RaResumeFolder == \E r \in DOMAIN pending : PatchFolderResume(r)

RaTick ==
  /\ now < MaxTime
  /\ now' = now + 1
  /\ UNCHANGED <<store, res, pending, ui>>

NextRace ==
  \/ RaPatchFile
  \/ RaPatchFolder
  \/ RaResumeFile
  \/ RaResumeFolder
  \/ RaTick

SpecRace == InitRace /\ [][NextRace]_vars

\* the record stored for the item request p targets
StoredFor(p) ==
  IF p.route = "PATCH /api/files/:id" THEN getFile(p.id) ELSE getFolder(p.id)

\* the request whose update call ran last among those for p's item
LastUpdateOn(p) ==
  CHOOSE r \in DOMAIN pending :
     /\ pending[r].route = p.route
     /\ pending[r].id = p.id
     /\ \A q \in DOMAIN pending :
           (pending[q].route = p.route /\ pending[q].id = p.id)
             => pending[q].nth <= pending[r].nth

\* C24: update requests for the same file or folder whose handlers
\* interleave all run to their answer, each is answered 200 and none is
\* told of a conflict; an update call stores the record it returns, no
\* other step changes a record, and so the record stored once the requests
\* have answered is the one returned by the update call that ran last
C24_OverlappingUpdatesLastWriteWins ==
  /\ [](\A r \in DOMAIN pending :
          LET p == pending[r]
          IN /\ p.pc # "done"
                  => ENABLED (PatchFileResume(r) \/ PatchFolderResume(r))
             /\ p.pc = "done" => p.status = 200
             /\ p.nth > 0 => StoredFor(p) = pending[LastUpdateOn(p)].ret)
  /\ [][\A r \in DOMAIN pending :
          IF pending[r].nth = 0 /\ pending'[r].nth > 0
          THEN /\ StoredFor(pending[r])' = pending'[r].ret
               /\ pending'[r].ret # << >>
               /\ pending'[r].nth = UpdateCalls + 1
          ELSE pending'[r].nth = pending[r].nth
      ]_vars
  /\ [][(\A r \in DOMAIN pending : pending'[r].nth = pending[r].nth)
          => UNCHANGED <<files, folders>>]_vars

\* C24 witness: two requests for the file have answered 200; the second
\* read the file before the first renamed it and wrote afterwards, and the
\* stored file is the one the second call returned, under the old name
C24_Witness ==
  /\ DOMAIN pending = {1, 2}
  /\ \A r \in {1, 2} :
        /\ pending[r].route = "PATCH /api/files/:id"
        /\ pending[r].pc = "done"
        /\ pending[r].status = 200
  /\ pending[1].nth = 1
  /\ pending[2].nth = 2
  /\ pending[1].ret[1].name = "b"
  /\ pending[2].rec # pending[2].over
  /\ files[1] = pending[2].ret[1]
  /\ files[1].name = "a"
  /\ files[1].starred = "true"

----------------------------------------------------------------------------
(* Client components.  ui is the state of the component under study: its   *)
(* useState cells, the props its parent passes, and, for an async handler  *)
(* that is suspended at an await, the values its closure captured          *)

\* the store of a server that holds one file and one folder of user 1,
\* with the component state uiState
InitClient(uiState) ==
  /\ now = 0
  /\ users = UsersAfterCreateFile(UsersAfterCreates(<<Amy, Bob>>),
                                  InsertFile("a", 1, 1, Null))
  /\ currentUserId = 3
  /\ folders = (1 :> NewFolder(InsertFolder("a", 1, Null), 1))
  /\ files = (1 :> NewFile(InsertFile("a", 1, 1, Null), 1))
  /\ shares = << >>
  /\ currentFolderId = 2
  /\ currentFileId = 2
  /\ currentShareId = 1
  /\ res = NoRes
  /\ pending = << >>
  /\ ui = uiState

----------------------------------------------------------------------------
(* UploadModal (preview-modal.tsx 226-326).  uploadItems holds the status  *)
(* of each item, isOpen is the parent's isUploadModalOpen, toasts the      *)
(* toasts shown, timers the setTimeout callbacks not yet run; while        *)
(* uploadFiles is suspended at its fetch, closure is the uploadItems array *)
(* of the render that created the handler, i its loop index and uploaded   *)
(* the number of items whose upload was answered ok in this run            *)

UploadModalState ==
  [uploadItems |-> << >>, isUploading |-> FALSE, isOpen |-> FALSE,
   toasts |-> << >>, timers |-> 0, pc |-> "idle", closure |-> << >>,
   i |-> 0, uploaded |-> 0, runs |-> 0]

\* updated[i] = { ...updated[i], status } on a copy of the array; an index
\* past the end leaves holes before it
SetStatus(items, i, status) ==
  [k \in 1..Max(Len(items), i) |->
      IF k = i THEN status
      ELSE IF k <= Len(items) THEN items[k] ELSE "<empty>"]

\* the loop's next index at or after from whose captured status is not
\* 'complete' (0: the loop is over)
NextToUpload(closure, from) ==
  LET todo == {k \in from..Len(closure) : closure[k] # "complete"}
  IN IF todo = {} THEN 0 ELSE CHOOSE k \in todo : \A j \in todo : k <= j

\* uploadItems.filter(item => item.status === 'complete').length, over the
\* array the handler captured
completedCount(st) ==
  Cardinality({k \in 1..Len(st.closure) : st.closure[k] = "complete"})

\* uploadFiles after its loop: the toast, the delayed close, and finally
\* setIsUploading(false)
AfterUploadLoop(st) ==
  LET n == completedCount(st)
  IN [st EXCEPT
        !.toasts = IF n > 0
                   THEN Append(@, [title |-> "Upload complete", count |-> n])
                   ELSE @,
        !.timers = IF n > 0 /\ n = Len(st.closure) THEN @ + 1 ELSE @,
        !.isUploading = FALSE, !.pc = "idle", !.i = 0, !.runs = @ + 1]

\* the loop from index from up to its next fetch, or through its end
UploadLoopFrom(st, from) ==
  LET k == NextToUpload(st.closure, from)
  IN IF k = 0 THEN AfterUploadLoop(st)
     ELSE [st EXCEPT !.uploadItems = SetStatus(@, k, "uploading"),
                     !.i = k, !.pc = "fetch"]

\* the parent opens the modal
UmOpen ==
  /\ ~ui.isOpen
  /\ ui' = [ui EXCEPT !.isOpen = TRUE]
  /\ UNCHANGED <<store, now, res, pending>>

\* handleFileDrop for each of n dropped files (the Dropzone is rendered
\* while the list is empty)
UmDrop(n) ==
  /\ ui.isOpen /\ ~ui.isUploading /\ ui.uploadItems = << >>
  /\ ui' = [ui EXCEPT !.uploadItems = [k \in 1..n |-> "pending"]]
  /\ UNCHANGED <<store, now, res, pending>>

\* removeFile(index)
UmRemoveFile(index) ==
  /\ ui.isOpen /\ ~ui.isUploading
  /\ index \in 1..Len(ui.uploadItems)
  /\ ui.uploadItems[index] \notin {"uploading", "complete"}
  /\ ui' = [ui EXCEPT
              !.uploadItems = [k \in 1..(Len(@) - 1) |->
                                 IF k < index THEN @[k] ELSE @[k + 1]]]
  /\ UNCHANGED <<store, now, res, pending>>

\* the Clear all button: setUploadItems([])
UmClearAll ==
  /\ ui.isOpen /\ ~ui.isUploading /\ ui.uploadItems # << >>
  /\ ui' = [ui EXCEPT !.uploadItems = << >>]
  /\ UNCHANGED <<store, now, res, pending>>

\* the Cancel button: onClose()
UmCancel ==
  /\ ui.isOpen /\ ~ui.isUploading
  /\ ui' = [ui EXCEPT !.isOpen = FALSE]
  /\ UNCHANGED <<store, now, res, pending>>

\* uploadFiles up to its first fetch
UmUploadFiles ==
  /\ ui.isOpen /\ ~ui.isUploading /\ ui.uploadItems # << >>
  /\ ui.runs < MaxUploadRuns
  /\ ui' = UploadLoopFrom([ui EXCEPT !.isUploading = TRUE,
                                     !.closure = ui.uploadItems,
                                     !.uploaded = 0], 1)
  /\ UNCHANGED <<store, now, res, pending>>

\* uploadFiles from the answer to its fetch (ok: response.ok) up to the
\* next fetch, or through its end
UmResponse(ok) ==
  /\ ui.pc = "fetch"
  /\ ui' = UploadLoopFrom(
             [ui EXCEPT !.uploadItems = SetStatus(@, ui.i,
                                                  IF ok THEN "complete"
                                                  ELSE "error"),
                        !.uploaded = IF ok THEN @ + 1 ELSE @],
             ui.i + 1)
  /\ UNCHANGED <<store, now, res, pending>>

\* the callback of setTimeout(..., 1000): onClose(); setUploadItems([])
UmTimer ==
  /\ ui.timers > 0
  /\ ui' = [ui EXCEPT !.timers = @ - 1, !.isOpen = FALSE,
                      !.uploadItems = << >>]
  /\ UNCHANGED <<store, now, res, pending>>

(* SpecUpload: the modal is opened, up to MaxUploadItems files are dropped *)
(* and removed, and uploadFiles runs up to MaxUploadRuns times with each   *)
(* upload answered ok or not                                               *)

NextUpload ==
  \/ UmOpen
  \/ \E n \in 1..MaxUploadItems : UmDrop(n)
  \/ \E index \in 1..MaxUploadItems : UmRemoveFile(index)
  \/ UmClearAll
  \/ UmCancel
  \/ UmUploadFiles
  \/ \E ok \in BOOLEAN : UmResponse(ok)
  \/ UmTimer

SpecUpload == InitClient(UploadModalState) /\ [][NextUpload]_vars

\* C25: when a run of uploadFiles ends in which every item of the list was
\* uploaded and answered ok, every item has status 'complete', isUploading
\* is false, the last toast is 'Upload complete' with the number of files
\* uploaded in the run, and the close of the modal is scheduled; when it
\* runs, the modal is closed and the list is empty
C25_UploadRunReportsAndCloses ==
  [][ /\ (/\ ui'.runs = ui.runs + 1
          /\ ui'.uploaded = Len(ui'.closure))
         => /\ \A k \in 1..Len(ui'.uploadItems) :
                  ui'.uploadItems[k] = "complete"
            /\ ~ui'.isUploading
            /\ ui'.toasts # << >>
            /\ Len(ui'.toasts) = Len(ui.toasts) + 1
            /\ ui'.toasts[Len(ui'.toasts)] =
                 [title |-> "Upload complete", count |-> ui'.uploaded]
            /\ ui'.timers = ui.timers + 1
      /\ ui'.timers < ui.timers
         => ~ui'.isOpen /\ ui'.uploadItems = << >>
    ]_vars

----------------------------------------------------------------------------
(* SpecRename: the two users create folders named a and b, at the root and *)
(* inside stored folders, and rename stored folders to a, A and b; at most *)
(* MaxFolderId folders are created                                         *)

RnPostFolder ==
  \E u \in DOMAIN users, name \in {"a", "b"},
     parentId \in {Null} \cup DOMAIN folders :
     /\ PostFolderStatus(u, name, parentId, u) = 201
          => currentFolderId <= MaxFolderId
     /\ PostFolder(u, name, parentId, u)

RnRenameFolder ==
  \E u \in DOMAIN users, id \in DOMAIN folders, name \in {"a", "A", "b"} :
     PatchFolder(u, id, name, UndefinedT, UndefinedT)

NextRename ==
  \/ RnPostFolder
  \/ RnRenameFolder

SpecRename == InitAccounting /\ [][NextRename]_vars

\* C26: no user has two folders under the same parent whose names are equal
\* ignoring letter case
C26_SiblingNamesDifferIgnoringCase ==
  \A d, e \in DOMAIN folders :
     (/\ d # e
      /\ folders[d].userId = folders[e].userId
      /\ folders[d].parentId = folders[e].parentId)
       => toLowerCase(folders[d].name) # toLowerCase(folders[e].name)

----------------------------------------------------------------------------
(* SpecPlacement: the two users create root folders, upload files with no  *)
(* folderId field, with the field "0" and with the id of a stored folder,  *)
(* move files with PATCH (folderId null, 0 or a stored folder's id) and    *)
(* delete files and folders, one request at a time; at most                *)
(* MaxPlacementItems folders and files are created                         *)

PlacementItems == (currentFolderId - 1) + (currentFileId - 1)

PlPostFolder ==
  \E u \in DOMAIN users :
     /\ PostFolderStatus(u, "a", Null, u) = 201
          => PlacementItems < MaxPlacementItems
     /\ PostFolder(u, "a", Null, u)

PlUpload ==
  \E u \in DOMAIN users, rawFolderId \in {Undefined, 0} \cup DOMAIN folders :
     /\ UploadStatus(u, TRUE, 1, rawFolderId) = 201
          => PlacementItems < MaxPlacementItems
     /\ Upload(u, TRUE, "a", 1, rawFolderId)

PlMoveFile ==
  \E u \in DOMAIN users, id \in DOMAIN files,
     folderId \in {Null, 0} \cup DOMAIN folders :
     PatchFile(u, id, UndefinedT, folderId, UndefinedT, UndefinedT)

PlDeleteFile ==
  \E u \in DOMAIN users, id \in DOMAIN files : DeleteFileRoute(u, id)

PlDeleteFolder ==
  \E u \in DOMAIN users, id \in DOMAIN folders : DeleteFolderRoute(u, id)

NextPlacement ==
  \/ PlPostFolder
  \/ PlUpload
  \/ PlMoveFile
  \/ PlDeleteFile
  \/ PlDeleteFolder

SpecPlacement == InitAccounting /\ [][NextPlacement]_vars

\* C27: every file's folderId is null or the id of a stored folder that
\* belongs to the file's owner
C27_FileFolderIsOwnStoredFolder ==
  \A f \in DOMAIN files :
     \/ files[f].folderId = Null
     \/ /\ files[f].folderId \in DOMAIN folders
        /\ folders[files[f].folderId].userId = files[f].userId

----------------------------------------------------------------------------
(* SpecRestore: user 1 creates a root folder, uploads files at the top     *)
(* level and into the folder and shares them; updateFile sets isShared;    *)
(* user 1 stars files and both users send PATCH requests that carry only   *)
(* inTrash.  One folder and at most MaxRestoreFiles files and as many      *)
(* shares are created                                                      *)

RsPostFolder ==
  /\ currentFolderId = 1
  /\ PostFolder(1, "a", Null, 1)

RsUpload ==
  \E rawFolderId \in {Undefined} \cup DOMAIN folders :
     /\ currentFileId <= MaxRestoreFiles
     /\ Upload(1, TRUE, "a", 1, rawFolderId)

RsPostShare ==
  \E f \in DOMAIN files :
     /\ currentShareId <= MaxRestoreFiles
     /\ PostShare(1, f, Undefined, UndefinedT, UndefinedT, Undefined,
                  currentShareId)

\* the storage call that sets the flag POST /api/shares leaves alone
RsMarkShared ==
  \E id \in DOMAIN files : updateFile(id, [isShared |-> "true"])

RsStarFile ==
  \E id \in DOMAIN files :
     PatchFile(1, id, UndefinedT, Undefined, "true", UndefinedT)

RsTrashFile ==
  \E u \in DOMAIN users, id \in DOMAIN files :
     PatchFile(u, id, UndefinedT, Undefined, UndefinedT, "true")

RsRestoreFile ==
  \E u \in DOMAIN users, id \in DOMAIN files :
     PatchFile(u, id, UndefinedT, Undefined, UndefinedT, "false")

NextRestore ==
  \/ RsPostFolder
  \/ RsUpload
  \/ RsPostShare
  \/ RsMarkShared
  \/ RsStarFile
  \/ RsTrashFile
  \/ RsRestoreFile

SpecRestore == InitAccounting /\ [][NextRestore]_vars

\* the fields of file record r that trashing and restoring leave alone
KeptFields(r) ==
  [name |-> r.name, folderId |-> r.folderId, starred |-> r.starred,
   size |-> r.size, isShared |-> r.isShared]

\* C28: a PATCH that moves a file to trash and a PATCH that restores it each
\* leave the file's name, folderId, starred flag, size and isShared flag,
\* every share and every user's storageUsed as they were, so after trashing
\* and restoring they are what they were before; the restored file has
\* inTrash false and deletedAt null
C28_TrashThenRestoreKeepsTheFile ==
  [][\A f \in DOMAIN files :
        (f \in DOMAIN files' /\ files'[f].inTrash # files[f].inTrash)
          => /\ KeptFields(files'[f]) = KeptFields(files[f])
             /\ shares' = shares
             /\ users' = users
             /\ files'[f].inTrash \in {"true", "false"}
             /\ files'[f].inTrash = "false" => files'[f].deletedAt = Null]_vars

\* a starred, shared file in a folder, moved to trash earlier, has just been
\* restored by its owner: it is out of trash with a null deletedAt and its
\* bytes are still counted
C28_Witness ==
  /\ res.op = "PATCH /api/files/:id"
  /\ res.status = 200
  /\ res.id \in DOMAIN files
  /\ files[res.id].inTrash = "false"
  /\ files[res.id].deletedAt = Null
  /\ files[res.id].starred = "true"
  /\ files[res.id].isShared = "true"
  /\ files[res.id].folderId \in DOMAIN folders
  /\ \E s \in DOMAIN shares : shares[s].fileId = res.id
  /\ users[1].storageUsed = files[res.id].size

----------------------------------------------------------------------------
(* PreviewModal (preview-modal.tsx): ui holds the props file (a file id or *)
(* null) and files (file ids in list order), the state cell currentIndex   *)
(* as committed by the last render, and the name of the last event         *)
(* handled.  An event's action ends with the render React runs for it; a   *)
(* setCurrentIndex called while rendering makes React render again before  *)
(* anything is displayed                                                   *)

PreviewModalState ==
  [file |-> Null, files |-> << >>, currentIndex |-> 0, handled |-> "mount"]

\* files.findIndex(f => f.id === file.id), zero-based, -1 when absent
findIndex(fs, id) ==
  IF \E k \in 1..Len(fs) : fs[k] = id
  THEN (CHOOSE k \in 1..Len(fs) :
          fs[k] = id /\ \A j \in 1..(k - 1) : fs[j] # id) - 1
  ELSE 0 - 1

\* the component body up to the state it commits
Render(st) ==
  IF st.file # Null /\ Len(st.files) > 0
     /\ findIndex(st.files, st.file) # 0 - 1
     /\ findIndex(st.files, st.file) # st.currentIndex
  THEN [st EXCEPT !.currentIndex = findIndex(st.files, st.file)]
  ELSE st

\* files[currentIndex] || file
currentFile(st) ==
  IF st.currentIndex < Len(st.files) THEN st.files[st.currentIndex + 1]
  ELSE st.file

\* the lists a page passes as files: stored files in ascending id order
PreviewLists == {Ascending(S) : S \in SUBSET (1..MaxPreviewFiles)}

\* the page renders PreviewModal with new props
PvProps ==
  \E file \in {Null} \cup (1..MaxPreviewFiles), fs \in PreviewLists :
     /\ ui' = Render([ui EXCEPT !.file = file, !.files = fs,
                                !.handled = "props"])
     /\ UNCHANGED <<store, now, res, pending>>

PvHandlePrevious ==
  /\ ui' = Render([ui EXCEPT
                     !.currentIndex = IF @ > 0 THEN @ - 1 ELSE @,
                     !.handled = "handlePrevious"])
  /\ UNCHANGED <<store, now, res, pending>>

PvHandleNext ==
  /\ ui' = Render([ui EXCEPT
                     !.currentIndex = IF @ < Len(ui.files) - 1 THEN @ + 1
                                      ELSE @,
                     !.handled = "handleNext"])
  /\ UNCHANGED <<store, now, res, pending>>

NextPreview ==
  \/ PvProps
  \/ PvHandlePrevious
  \/ PvHandleNext

SpecPreview == InitClient(PreviewModalState) /\ [][NextPreview]_vars

\* C29: after handleNext with currentIndex below files.length - 1 the file
\* displayed is the next entry of files, after handlePrevious with
\* currentIndex above 0 it is the previous entry, and while files is not
\* empty currentIndex is within 0..files.length - 1
C29_NavigationMovesTheDisplayedFile ==
  /\ [](Len(ui.files) > 0 => ui.currentIndex \in 0..(Len(ui.files) - 1))
  /\ [][ /\ (ui'.handled = "handleNext"
             /\ ui.currentIndex < Len(ui.files) - 1)
            => /\ ui'.currentIndex = ui.currentIndex + 1
               /\ currentFile(ui') = ui.files[ui.currentIndex + 2]
         /\ (ui'.handled = "handlePrevious" /\ ui.currentIndex > 0)
            => /\ ui'.currentIndex = ui.currentIndex - 1
               /\ currentFile(ui') = ui.files[ui.currentIndex] ]_vars

----------------------------------------------------------------------------
(* The pages that render ShareModal, with user 1 signed in: ui holds the   *)
(* page mounted, its state cells selectedFile and selectedFolder (HomePage)*)
(* or shareItemId (SharedPage, StarredPage) as ids, isShareModalOpen and   *)
(* the title of the last toast of ShareModal.  Opening another page mounts *)
(* it with fresh state                                                     *)

SharePages == {"HomePage", "SharedPage", "StarredPage"}

PageState(page) ==
  [page |-> page, selectedFile |-> Null, selectedFolder |-> Null,
   shareItemId |-> Undefined, isShareModalOpen |-> FALSE, toast |-> ""]

\* the fileId prop the page passes to ShareModal
ShareModalFileId(st) ==
  IF st.page = "HomePage"
  THEN (IF st.selectedFile = Null THEN Undefined ELSE st.selectedFile)
  ELSE st.shareItemId

\* the folderId prop the page passes to ShareModal
ShareModalFolderId(st) ==
  IF st.page = "HomePage"
  THEN (IF st.selectedFolder = Null THEN Undefined ELSE st.selectedFolder)
  ELSE IF st.page = "SharedPage" THEN st.shareItemId
  ELSE Undefined

\* the files and folders a page lists
PageFiles(st) ==
  IF st.page = "HomePage" THEN ViewIds(getFilesByUserId(1, Null))
  ELSE IF st.page = "SharedPage" THEN ViewIds(getSharedFiles(1))
  ELSE ViewIds(getStarredFiles(1))

PageFolders(st) ==
  IF st.page = "HomePage" THEN ViewIds(getFoldersByUserId(1, Null))
  ELSE IF st.page = "SharedPage" THEN ViewIds(getSharedFolders(1))
  ELSE {}

PgNavigate ==
  \E page \in SharePages :
     /\ ui' = PageState(page)
     /\ UNCHANGED <<store, now, res, pending>>

\* HomePage.handleOpenFile
PgHandleOpenFile ==
  \E f \in PageFiles(ui) :
     /\ ui.page = "HomePage" /\ ~ui.isShareModalOpen
     /\ ui' = [ui EXCEPT !.selectedFile = f]
     /\ UNCHANGED <<store, now, res, pending>>

PgHandleShareFile ==
  \E f \in PageFiles(ui) :
     /\ ~ui.isShareModalOpen
     /\ ui' = IF ui.page = "HomePage"
              THEN [ui EXCEPT !.selectedFile = f, !.isShareModalOpen = TRUE]
              ELSE [ui EXCEPT !.shareItemId = f, !.isShareModalOpen = TRUE]
     /\ UNCHANGED <<store, now, res, pending>>

PgHandleShareFolder ==
  \E d \in PageFolders(ui) :
     /\ ~ui.isShareModalOpen
     /\ ui' = IF ui.page = "HomePage"
              THEN [ui EXCEPT !.selectedFolder = d, !.isShareModalOpen = TRUE]
              ELSE [ui EXCEPT !.shareItemId = d, !.isShareModalOpen = TRUE]
     /\ UNCHANGED <<store, now, res, pending>>

\* FileCard.handleToggleStar
PgToggleStar ==
  \E f \in PageFiles(ui) :
     /\ ~ui.isShareModalOpen
     /\ PatchFile(1, f, UndefinedT, Undefined,
                  IF files[f].starred = "true" THEN "false" ELSE "true",
                  UndefinedT)

\* onClose
PgCloseShareModal ==
  /\ ui.isShareModalOpen
  /\ ui' = [ui EXCEPT !.isShareModalOpen = FALSE]
  /\ UNCHANGED <<store, now, res, pending>>

\* ShareModal.createShareLink with the form left as it opens, and the
\* POST /api/shares it sends
PgCreateShareLink ==
  LET fileId == ShareModalFileId(ui)
      folderId == ShareModalFolderId(ui)
      status == PostShareStatus(1, fileId, folderId)
  IN /\ ui.isShareModalOpen
     /\ TruthyN(fileId) \/ TruthyN(folderId)
     /\ status = 201 => currentShareId <= MaxShareLinks
     /\ IF status = 201
        THEN storage_createShare(
               PostShareInsert(1, fileId, folderId, "public", "true",
                               Undefined), currentShareId)
        ELSE UNCHANGED store
     /\ ui' = [ui EXCEPT !.toast = IF status = 201 THEN "Share link created"
                                   ELSE "Error"]
     /\ res' = [Respond("POST /api/shares", 1,
                        IF TruthyN(fileId) THEN fileId ELSE 0,
                        IF TruthyN(folderId) THEN folderId ELSE 0, status)
                  EXCEPT !.tok = IF status = 201 THEN currentShareId ELSE 0]
     /\ UNCHANGED <<now, pending>>

NextPages ==
  \/ PgNavigate
  \/ PgHandleOpenFile
  \/ PgHandleShareFile
  \/ PgHandleShareFolder
  \/ PgToggleStar
  \/ PgCloseShareModal
  \/ PgCreateShareLink

SpecPages == InitClient(PageState("HomePage")) /\ [][NextPages]_vars

\* C30: while ShareModal is open exactly one of its fileId and folderId
\* props is defined, and no POST /api/shares it sent was answered 400
C30_ShareModalGetsOneTarget ==
  /\ ui.isShareModalOpen
       => (ShareModalFileId(ui) = Undefined)
            # (ShareModalFolderId(ui) = Undefined)
  /\ res.op = "POST /api/shares" => res.status # 400

====
